---- MODULE Spec2Model ----
(***************************************************************************)
(* State-machine model of the command orchestrator of                      *)
(* SpectrometerCameraDS: DeviceController.py (Condition, DeviceCommand)    *)
(* and CameraDeviceController_2.py (CameraDeviceController).               *)
(*                                                                         *)
(* Time is in milliseconds.  Timers hold the time that remains until they  *)
(* fire (NoTimer when they are not alive), a command holds the time that   *)
(* has passed since its start_time (age), and Tick advances time to the    *)
(* next instant at which something can happen.  Callbacks take no time.    *)
(*                                                                         *)
(* The objects of the program live in the heap cmd (a sequence of          *)
(* DeviceCommand records, an object's identity is its index).  The         *)
(* methods of the program are operators that map a world w (a record of    *)
(* all program variables) to the world after the call, so that a           *)
(* synchronous chain of calls (a completion callback notifying its         *)
(* subscribers, which start further commands) is one composed step.        *)
(***************************************************************************)
EXTENDS Integers, Sequences, FiniteSets, TLC

VARIABLES
    cmd,                    \* heap of DeviceCommand objects
    futures,                \* device futures in flight: <<[cmd, age]>>
    timeout_running,        \* commands whose timer thread is inside _timeout_cb
    hist,                   \* per command: what has been observed of it (history)
    device,                 \* CameraDeviceController.device (TRUE: a handle)
    state,                  \* CameraDeviceController.state
    status_msg,             \* CameraDeviceController.status_msg
    state_cb_list,          \* CameraDeviceController.state_cb_list
    attribute_dict,         \* CameraDeviceController.attribute_dict
    command_list,           \* CameraDeviceController.command_list (ids)
    watchdog_timer,         \* CameraDeviceController.watchdog_timer
    stop_state_thread_flag, \* CameraDeviceController.stop_state_thread_flag
    dev_future,             \* the DeviceProxy future of connect()
    thread,                 \* the state-handler thread: pc, wait, locals
    stopped_in,             \* history: the state stop_thread() was called in
    observed,               \* history: what has been observed of the watchdog
    env,                    \* the remote device (the attribute values it stores, the
                            \* slow answers and the faults it has left) and the
                            \* objects the run may create
    twisted                 \* SpectrometerCameraState.StateDispatcher: its fields, its
                            \* state object and the position of its thread

vars == <<cmd, futures, timeout_running, hist, device, state, status_msg,
          state_cb_list, attribute_dict, command_list, watchdog_timer, stop_state_thread_flag,
          dev_future, thread, stopped_in, observed, env, twisted>>

-----------------------------------------------------------------------------
(* Bounds of the model *)

\* DeviceCommand objects that one run may create, with a device that answers
\* promptly and without fault
MaxCmd == 14
\* DeviceCommand objects that one run may create, with a device that may not
MaxCmdFaulty == 6
\* round trip of a device call that answers promptly
FastLatency == 50
\* device calls of one run that do not answer promptly
MaxSlow == 1
\* device calls of one run that answer with a fault
MaxFaults == 1
\* times in one run that the state-handler thread is held up before a wait
MaxStall == 1
\* futures of one run that are complete when their callback is registered
MaxSync == 1
\* the largest value of a numeric attribute
MaxValue == 3
\* completions of the source of a Condition
MaxResults == 2
\* the age of a command and the time since its last issue are counted up to here
AgeCap == 2500
\* DeviceCommand objects that one run may create, with a device that dies
MaxCmdDying == 33
\* device calls a device that dies answers before it does
MaxAnswers == 9
\* DeviceCommand objects that one run may create, with two parameters to set up
MaxCmdTwo == 8
\* DeviceCommand objects that one run may create, with an owner that writes
MaxCmdOwner == 18
\* calls of write_attribute of one run
MaxWrites == 1
\* calls of add_state_callback of one run
MaxCallbacks == 2
\* DeviceCommand objects that one run may create, with an owner that stops it
MaxCmdStopped == 18
\* DeviceCommand objects that one run may create, with a controller that
\* connects again
MaxCmdReconnect == 25
\* late answers of the device in one run, and the DeviceCommand objects of
\* that run
MaxLate == 2
MaxCmdLate == 15
\* the DeviceCommand objects of a run with a camera that reports INIT
MaxCmdReporting == 30

(* Program constants, in milliseconds *)

CmdTimeout == 2000
DefaultPeriod == 1000
ProbeTimeout == 4000
StopDelay == 500
WatchdogTimeout == 10000
ConnectWait == 3000
ProbeWait == 4000
ConnectionTimeout == 1000
InitTimeout == 7000
WriteDelay == 100

NoTimer == -1

\* round trip of a device call that answers as its command times out
SlowLatency == CmdTimeout

Latencies == {FastLatency, SlowLatency}

Max(a, b) == IF a >= b THEN a ELSE b

Min(S) == CHOOSE x \in S : \A y \in S : x <= y

\* F(x), with x evaluated once
Once(x, F(_)) == CHOOSE r \in {F(v) : v \in {x}} : TRUE

-----------------------------------------------------------------------------
(* PyTango values *)

NoAttr == [isNone |-> TRUE, name |-> "", value |-> "", quality |-> ""]

DeviceAttribute(n, v, q) == [isNone |-> FALSE, name |-> n, value |-> v, quality |-> q]

\* pt.DeviceAttribute(): no value yet
EmptyDeviceAttribute == DeviceAttribute("", "None", "ATTR_VALID")

\* the fault reasons _attribute_cb tells apart, and one it does not
FaultReasons == {"API_DeviceNotExported", "API_DeviceTimedOut", "API_CantConnectToDevice",
                 "DB_DeviceNotDefined", "API_AttrNotAllowed", "Other"}

\* the device state that _attribute_cb derives from a fault reason
FaultState(reason) ==
    CASE reason = "API_DeviceNotExported" -> "UNKNOWN"
      [] reason = "API_DeviceTimedOut" -> "UNKNOWN"
      [] reason = "API_CantConnectToDevice" -> "UNKNOWN"
      [] reason = "DB_DeviceNotDefined" -> "UNKNOWN"
      [] reason = "API_AttrNotAllowed" -> "ALARM"
      [] OTHER -> "rethrow"

-----------------------------------------------------------------------------
(* class Condition *)

NewCondition(cond_obj) ==
    [cond_obj |-> cond_obj, range_type |-> "None", valid_range |-> <<>>,
     invalid_range |-> <<>>, fulfilled |-> FALSE]

InSeq(v, s) == \E i \in 1..Len(s) : s[i] = v

\* _determine_range_type: valid_range and invalid_range are lists (<<>> stands
\* for None), type is the Python type of their elements
determine_range_type(valid_range, invalid_range, type) ==
    IF valid_range # <<>>
    THEN IF type \in {"DevState", "AttrQuality"} THEN "enum"
         ELSE IF Len(valid_range) # 2 THEN "enum"
         ELSE "range"
    ELSE IF invalid_range # <<>>
    THEN IF type \in {"DevState", "AttrQuality"} THEN "enum"
         ELSE IF Len(invalid_range) # 2 THEN "enum"
         ELSE "range"
    ELSE "None"

\* Condition(cond_obj, valid_range, invalid_range), range_type None
Condition(cond_obj, valid_range, invalid_range, type) ==
    [cond_obj |-> cond_obj,
     range_type |-> determine_range_type(valid_range, invalid_range, type),
     valid_range |-> valid_range, invalid_range |-> invalid_range, fulfilled |-> FALSE]

\* Condition.check_condition with the test of valid_range after the test of
\* invalid_range
Condition_check_condition_valid_last(cond, attr) ==
    IF attr.isNone THEN TRUE
    ELSE IF attr.quality = "ATTR_VALID"
    THEN CASE cond.range_type = "range" ->
                  IF cond.valid_range # <<>>
                  THEN cond.valid_range[1] < attr.value /\ attr.value < cond.valid_range[2]
                  ELSE IF cond.invalid_range # <<>>
                  THEN ~(cond.invalid_range[1] < attr.value /\ attr.value < cond.invalid_range[2])
                  ELSE FALSE
           [] cond.range_type = "enum" ->
                  IF cond.valid_range # <<>>
                  THEN InSeq(attr.value, cond.valid_range)
                  ELSE IF cond.invalid_range # <<>>
                  THEN ~InSeq(attr.value, cond.invalid_range)
                  ELSE FALSE
           [] OTHER -> TRUE
    ELSE FALSE

\* Condition.check_condition with ranges that hold their boundaries
Condition_check_condition_closed(cond, attr) ==
    IF attr.isNone THEN TRUE
    ELSE IF attr.quality = "ATTR_VALID"
    THEN CASE cond.range_type = "range" ->
                  IF cond.invalid_range # <<>>
                  THEN ~(cond.invalid_range[1] <= attr.value /\ attr.value <= cond.invalid_range[2])
                  ELSE IF cond.valid_range # <<>>
                  THEN cond.valid_range[1] <= attr.value /\ attr.value <= cond.valid_range[2]
                  ELSE FALSE
           [] cond.range_type = "enum" ->
                  IF cond.invalid_range # <<>>
                  THEN ~InSeq(attr.value, cond.invalid_range)
                  ELSE IF cond.valid_range # <<>>
                  THEN InSeq(attr.value, cond.valid_range)
                  ELSE FALSE
           [] OTHER -> TRUE
    ELSE FALSE

\* Condition.check_condition: the result for the attribute attr of cond_obj
Condition_check_condition(cond, attr) ==
    IF attr.isNone THEN TRUE
    ELSE IF attr.quality = "ATTR_VALID"
    THEN CASE cond.range_type = "range" ->
                  IF cond.invalid_range # <<>>
                  THEN ~(cond.invalid_range[1] < attr.value /\ attr.value < cond.invalid_range[2])
                  ELSE IF cond.valid_range # <<>>
                  THEN cond.valid_range[1] < attr.value /\ attr.value < cond.valid_range[2]
                  ELSE FALSE
           [] cond.range_type = "enum" ->
                  IF cond.invalid_range # <<>>
                  THEN ~InSeq(attr.value, cond.invalid_range)
                  ELSE IF cond.valid_range # <<>>
                  THEN InSeq(attr.value, cond.valid_range)
                  ELSE FALSE
           [] OTHER -> TRUE
    ELSE FALSE

-----------------------------------------------------------------------------
(* class DeviceCommand *)

DeviceCommand(name, operation, dev, data, recurrent, period, timeout) ==
    [name |-> name, operation |-> operation, device |-> dev, data |-> data,
     done |-> FALSE, pending |-> FALSE, timed_out |-> FALSE,
     status_msg |-> "", state |-> "ON",
     subscriber_list |-> <<>>, condition_dict |-> <<>>,
     recurrent |-> recurrent, period |-> period,
     delay_timer |-> NoTimer, age |-> 0, attr_result |-> NoAttr,
     timeout |-> timeout, timeout_timer |-> NoTimer]

\* what the history keeps of one command
NewHist ==
    [starts |-> 0,          \* calls of start()
     issues |-> 0,          \* operations issued since the last start()
     notes |-> 0,           \* notify_subscribers() since the last start()
     cancelled |-> FALSE,   \* cancel() was called since the last start()
     stale |-> FALSE,       \* a completion ran exec_post_actions after cancel()
     undone |-> FALSE,      \* it issued while a dependency was not done
     gap |-> NoTimer,       \* time between its last two issues
     since |-> NoTimer,     \* time since its last issue
     gates |-> {},          \* the dependencies add_condition registered
     faulted |-> FALSE,     \* _attribute_cb got a fault since the last start()
     ended |-> "None",      \* what cleared pending since the last start()
     result |-> "None",     \* what its last completion callback received
     doneby |-> "None",     \* what the callback that set done received
     poststop |-> FALSE,    \* it issued after stop_thread() was called
     chain |-> 0,           \* the chain it belongs to: the delay command of the
                            \* init_handler or write_attribute call that made it
     early |-> FALSE,       \* it issued before a command of its chain that is to
                            \* precede it had completed
     raised |-> FALSE,      \* _attribute_cb raised an exception
     listed |-> FALSE,      \* it was in command_list when its last fault arrived
     left |-> "None",       \* the controller state that callback left
     kept |-> FALSE,        \* that callback left the device handle and the pending
                            \* commands alone
     moved |-> FALSE]       \* a fault or a timeout of it changed attribute_dict

\* the constructor: a new object on the heap, its identity is Len(w.cmd) + 1
New(w, rec) ==
    [w EXCEPT !.cmd = Append(@, rec), !.hist = Append(@, NewHist)]

Last(w) == Len(w.cmd)

\* F(w1, c): w1 the world with the new object rec, c its identity
Made(w, rec, F(_, _)) == Once(New(w, rec), LAMBDA w1 : F(w1, Last(w1)))

\* with self.lock: the entry and the exit of the block
acquire(w) == [w EXCEPT !.lock = TRUE]

release(w) == [w EXCEPT !.lock = FALSE]

\* self.command_list = list, by an append, a remove or an assignment; the
\* history keeps that one was made without self.lock
set_command_list(w0, list) ==
    Once(w0, LAMBDA w :
        [w EXCEPT !.command_list = list,
                  !.observed.bare = @ \/ ~w.lock])

\* self.command_list.append(c)
command_list_append(w0, c) ==
    Once(w0, LAMBDA w : set_command_list(w, Append(w.command_list, c)))

add_subscriber(w0, c, subscriber) ==
    Once(w0, LAMBDA w :
        IF InSeq(subscriber, w.cmd[c].subscriber_list) THEN w
        ELSE [w EXCEPT !.cmd[c].subscriber_list = Append(@, subscriber)])

CondObjs(o) == {o.condition_dict[i].cond_obj : i \in 1..Len(o.condition_dict)}

add_condition(w0, c, cond_obj) ==
    Once(w0, LAMBDA w :
        IF cond_obj \in CondObjs(w.cmd[c]) THEN w
        ELSE add_subscriber([w EXCEPT !.cmd[c].condition_dict = Append(@, NewCondition(cond_obj)),
                                      !.hist[c].gates = @ \cup {cond_obj}],
                            cond_obj, [kind |-> "check_condition", obj |-> c]))

\* add_condition(cond_obj, valid_range, invalid_range)
add_condition_ranges(w0, c, cond_obj, valid_range, invalid_range, type) ==
    Once(w0, LAMBDA w :
        IF cond_obj \in CondObjs(w.cmd[c]) THEN w
        ELSE add_subscriber([w EXCEPT !.cmd[c].condition_dict =
                                          Append(@, Condition(cond_obj, valid_range, invalid_range, type)),
                                      !.hist[c].gates = @ \cup {cond_obj}],
                            cond_obj, [kind |-> "check_condition", obj |-> c]))

clear_conditions(w, c) == [w EXCEPT !.cmd[c].condition_dict = <<>>]

\* the order of a chain: d is to complete before c issues.  In an INIT chain
\* the writes come after the stop command and the settle delay, the read of a
\* parameter after its write, the start command after every read; in a chain of
\* write_attribute the read comes after the write and the delay
Precedes(w, d, c) ==
    /\ w.hist[c].chain # 0
    /\ w.hist[d].chain = w.hist[c].chain
    /\ CASE w.cmd[c].operation = "write" -> w.cmd[d].name \in {"stop", "stop_delay"}
          [] w.cmd[c].operation = "read" ->
                 \/ w.cmd[d].operation = "write" /\ w.cmd[d].name = w.cmd[c].name
                 \/ w.cmd[d].name = "delay_w"
          [] w.cmd[c].name = "start" -> w.cmd[d].operation = "read"
          [] OTHER -> FALSE

\* the history of an issue of c's operation
NoteIssue(w0, c) ==
    Once(w0, LAMBDA w :
        LET o == w.cmd[c]
            h == w.hist[c]
        IN  [w EXCEPT !.hist[c] =
                [h EXCEPT !.issues = @ + 1,
                          !.undone = @ \/ \E d \in CondObjs(o) : ~w.cmd[d].done,
                          !.early = @ \/ \E d \in 1..Len(w.cmd) :
                                            Precedes(w, d, c) /\ w.hist[d].ended # "success",
                          !.gap = h.since,
                          !.since = 0,
                          !.poststop = @ \/ (w.stop_state_thread_flag /\ o.operation # "delay")]])

\* _read_attribute, _write_attribute, _exec_command: an asynchronous device call
\* a subscriber that takes self.lock of the controller
LockTaking(subscriber_list) ==
    \E i \in 1..Len(subscriber_list) :
        subscriber_list[i].kind \in {"device_command_cb", "camera_state_cb"}

\* _read_attribute, _write_attribute, _exec_command: an asynchronous device call.
\* A future that is complete when add_done_callback registers _attribute_cb
\* runs it in the calling thread (env.sync such futures); of these the model
\* has the one that meets self.lock held by its own thread: notify_subscribers
\* comes to a subscriber that waits for the lock, and the thread goes no further
device_call(w0, c) ==
    Once(w0, LAMBDA w :
        IF w.cmd[c].device
        THEN IF w.env.sync > 0 /\ w.lock /\ LockTaking(w.cmd[c].subscriber_list)
             THEN [NoteIssue(w, c) EXCEPT !.observed.relocked = TRUE, !.env.sync = @ - 1]
             ELSE NoteIssue([w EXCEPT !.futures = Append(@, [cmd |-> c, age |-> 0])], c)
        ELSE w)

delay_operation(w0, c) ==
    Once(w0, LAMBDA w :
        NoteIssue([w EXCEPT !.cmd[c].delay_timer = Max(w.cmd[c].data, 0)], c))

execute_operation(w0, c) ==
    Once(w0, LAMBDA w :
        IF w.cmd[c].pending
        THEN CASE w.cmd[c].operation \in {"read", "write", "command"} -> device_call(w, c)
               [] w.cmd[c].operation = "delay" -> delay_operation(w, c)
               [] OTHER -> w
        ELSE w)

\* check_condition(cond_obj) that evaluates a Condition whether or not its
\* cond_obj is done
check_condition_undone(w0, c, cond_obj) ==
    Once(w0, LAMBDA w :
        LET o == w.cmd[c]
            eval(cd) ==
                IF cond_obj = 0 \/ cd.cond_obj = cond_obj
                THEN [cd EXCEPT !.fulfilled =
                         Condition_check_condition(cd, w.cmd[cd.cond_obj].attr_result)]
                ELSE cd
            dict == [i \in 1..Len(o.condition_dict) |-> eval(o.condition_dict[i])]
            fulfilled == \A i \in 1..Len(dict) : dict[i].fulfilled
            w2 == [w EXCEPT !.cmd[c].condition_dict = dict]
        IN  IF fulfilled THEN execute_operation(w2, c) ELSE w2)

\* check_condition(cond_obj); cond_obj = 0 stands for None
check_condition(w0, c, cond_obj) ==
    Once(w0, LAMBDA w :
        LET o == w.cmd[c]
            eval(cd) ==
                IF w.cmd[cd.cond_obj].done /\ (cond_obj = 0 \/ cd.cond_obj = cond_obj)
                THEN [cd EXCEPT !.fulfilled =
                         Condition_check_condition(cd, w.cmd[cd.cond_obj].attr_result)]
                ELSE cd
            dict == [i \in 1..Len(o.condition_dict) |-> eval(o.condition_dict[i])]
            fulfilled == \A i \in 1..Len(dict) : dict[i].fulfilled
            w2 == [w EXCEPT !.cmd[c].condition_dict = dict]
        IN  IF fulfilled THEN execute_operation(w2, c) ELSE w2)

\* start() that leaves the first evaluation of the conditions to a notification
start_without_check(w0, c) ==
    Once(w0, LAMBDA w :
        [w EXCEPT !.cmd[c].pending = TRUE,
                  !.cmd[c].done = FALSE,
                  !.cmd[c].timed_out = FALSE,
                  !.cmd[c].age = 0,
                  !.cmd[c].timeout_timer = w.cmd[c].timeout,
                  !.cmd[c].state = "ON",
                  !.hist[c].starts = @ + 1,
                  !.hist[c].issues = 0])

start(w0, c) ==
    Once(w0, LAMBDA w :
        LET o == w.cmd[c]
            w2 == [w EXCEPT !.cmd[c] =
                      [o EXCEPT !.delay_timer = NoTimer,
                                !.pending = TRUE,
                                !.done = FALSE,
                                !.timed_out = FALSE,
                                !.age = 0,
                                !.timeout_timer = o.timeout,
                                !.status_msg = "Command started",
                                !.state = "ON"],
                            !.hist[c] =
                      [@ EXCEPT !.starts = @ + 1, !.issues = 0, !.notes = 0,
                                !.cancelled = FALSE, !.faulted = FALSE, !.ended = "None",
                                !.result = "None", !.doneby = "None"]]
        IN  check_condition(w2, c, 0))

\* cancel() that forgets the timeout timer
cancel_keeps_timeout_timer(w, c) ==
    [w EXCEPT !.cmd[c].pending = FALSE,
              !.cmd[c].delay_timer = NoTimer,
              !.cmd[c].condition_dict = <<>>,
              !.cmd[c].status_msg = "Command cancelled",
              !.hist[c].cancelled = TRUE]

cancel(w0, c) ==
    Once(w0, LAMBDA w :
        LET o == w.cmd[c]
        IN  [w EXCEPT !.cmd[c] =
                [o EXCEPT !.pending = FALSE,
                          !.delay_timer = NoTimer,
                          !.timeout_timer = NoTimer,
                          !.condition_dict = clear_conditions(w, c).cmd[c].condition_dict,
                          !.status_msg = "Command cancelled"],
                      !.hist[c].cancelled = TRUE,
                      !.hist[c].ended = IF o.pending THEN "cancel" ELSE @])

-----------------------------------------------------------------------------
(* class CameraDeviceController: the methods callbacks use *)

\* the state-handler thread waits at these places, on these condition variables
WaitVar(pc) ==
    CASE pc \in {"unknown_wait_connect", "on_wait", "off_wait", "fault_wait"}
             -> "state_condition_var"
      [] pc \in {"unknown_wait_probe", "unknown_wait_backoff", "init_wait"}
             -> "wakeup_condition_var"
      [] OTHER -> "None"

\* where the thread goes on when its wait returns
AfterWait(pc) ==
    CASE pc = "unknown_wait_connect" -> "unknown_connected"
      [] pc = "unknown_wait_probe" -> "unknown_probed"
      [] pc = "unknown_wait_backoff" -> "unknown_handler"
      [] pc = "init_wait" -> "init_waited"
      [] pc = "on_wait" -> "on_handler"
      [] pc = "off_wait" -> "off_handler"
      [] pc = "fault_wait" -> "fault_handler"
      [] OTHER -> pc

\* condition_var.notify_all(): the wait of the thread, if it waits on it, returns
notify_all(w0, condition_var) ==
    Once(w0, LAMBDA w :
        IF WaitVar(w.thread.pc) = condition_var
        THEN [w EXCEPT !.thread.pc = AfterWait(@), !.thread.wait = NoTimer]
        ELSE w)

set_status(w0, msg, append) ==
    Once(w0, LAMBDA w :
        IF append
        THEN [w EXCEPT !.status_msg = Append(@, msg)]
        ELSE [w EXCEPT !.status_msg = <<w.state, msg>>])

get_status(w) == w.status_msg

\* cb(new_state, status) of a state callback: the owner's code, which returns
\* and leaves the controller alone; the history keeps the call
CallStateCallback(w, cb, new_state, status) ==
    [w EXCEPT !.observed.invoked =
         Append(@, [cb |-> cb, new_state |-> new_state, status |-> status])]

RECURSIVE CallStateCallbacks(_, _, _)
CallStateCallbacks(w0, new_state, i) ==
    Once(w0, LAMBDA w :
        IF i > Len(w.state_cb_list) THEN w
        ELSE CallStateCallbacks(CallStateCallback(w, w.state_cb_list[i], new_state, get_status(w)),
                                new_state, i + 1))

\* set_state that calls the state callbacks only when the state changes
set_state_on_change(w0, new_state) ==
    Once(w0, LAMBDA w :
        LET w1 == set_status([w EXCEPT !.state = new_state,
                                       !.observed.invoked = <<>>,
                                       !.observed.registered = w.state_cb_list], "", FALSE)
            w2 == IF w.state = new_state THEN w1 ELSE CallStateCallbacks(w1, new_state, 1)
        IN  notify_all(w2, "state_condition_var"))

set_state(w0, new_state) ==
    Once(w0, LAMBDA w :
        LET w1 == set_status([w EXCEPT !.state = new_state,
                                       !.observed.invoked = <<>>,
                                       !.observed.registered = w.state_cb_list], "", FALSE)
        IN  notify_all(CallStateCallbacks(w1, new_state, 1), "state_condition_var"))

add_state_callback(w, cb) == [w EXCEPT !.state_cb_list = Append(@, cb)]

reset_watchdog(w) ==
    [w EXCEPT !.watchdog_timer = WatchdogTimeout, !.observed.unreset = FALSE]

stop_watchdog(w) == [w EXCEPT !.watchdog_timer = NoTimer, !.observed.unreset = FALSE]

get_attribute(w, attr_name) ==
    IF attr_name \in DOMAIN w.attribute_dict THEN w.attribute_dict[attr_name] ELSE NoAttr

\* list.remove(c) that removes nothing
Keep(list, c) == list

\* list.remove(c): without the first c; a list without c is left as it is
Remove(list, c) ==
    IF ~InSeq(c, list) THEN list
    ELSE LET i == Min({j \in 1..Len(list) : list[j] = c})
         IN  SubSeq(list, 1, i - 1) \o SubSeq(list, i + 1, Len(list))

\* self.command_list.remove(c)
command_list_remove(w0, c) ==
    Once(w0, LAMBDA w : set_command_list(w, Remove(w.command_list, c)))

\* device_command_cb, the scan of command_list: what it collects from one command
ScanCommand(w, acc, c) ==
    LET o == w.cmd[c]
        a1 == IF o.timed_out
              THEN [acc EXCEPT !.remove_list = Append(@, c),
                               !.status_msg = <<w.state, o.status_msg>>]
              ELSE acc
    IN  IF o.done
        THEN [a1 EXCEPT !.remove_list = Append(@, c),
                        !.attribute_dict =
                            IF o.operation = "read" THEN (o.name :> o.attr_result) @@ @ ELSE @,
                        !.reset_flag = TRUE]
        ELSE IF o.state = "UNKNOWN"
        THEN [a1 EXCEPT !.new_state = "UNKNOWN", !.new_status = o.status_msg,
                        !.seen = @ \cup {"UNKNOWN"}]
        ELSE IF o.state = "ALARM"
        THEN [a1 EXCEPT !.new_state = "ALARM", !.new_status = o.status_msg,
                        !.seen = @ \cup {"ALARM"}]
        ELSE a1

RECURSIVE Scan(_, _, _)
Scan(w0, acc, i) ==
    Once(w0, LAMBDA w :
        IF i > Len(w.command_list) THEN acc
        ELSE Scan(w, ScanCommand(w, acc, w.command_list[i]), i + 1))

\* the removal of one command with a re-arm that starts the delay and does not
\* make it a condition of the command
RemoveCommand_ungated(w0, c) ==
    Once(w0, LAMBDA w :
        LET o == w.cmd[c]
            w1 == command_list_remove(w, c)
            t == o.period - o.age
        IN  IF o.recurrent
            THEN Made(w1, DeviceCommand("delay_" \o o.name, "delay", w.device, t,
                                        FALSE, DefaultPeriod, CmdTimeout),
                      LAMBDA w2, delay_cmd :
                          command_list_append(start(start(w2, delay_cmd), c), c))
            ELSE w1)

\* device_command_cb, the removal of one command and the re-arm of a recurrent one
RemoveCommand(w0, c) ==
    Once(w0, LAMBDA w :
        LET o == w.cmd[c]
            w1 == command_list_remove(w, c)
            t == o.period - o.age
        IN  IF o.recurrent
            THEN Made(w1, DeviceCommand("delay_" \o o.name, "delay", w.device, t,
                                        FALSE, DefaultPeriod, CmdTimeout),
                      LAMBDA w2, delay_cmd :
                          command_list_append(start(start(add_condition(w2, c, delay_cmd), delay_cmd), c), c))
            ELSE w1)

RECURSIVE RemoveAll(_, _, _)
RemoveAll(w0, remove_list, i) ==
    Once(w0, LAMBDA w :
        IF i > Len(remove_list) THEN w
        ELSE RemoveAll(RemoveCommand(w, remove_list[i]), remove_list, i + 1))

\* what a scan leaves behind, w before it and w1 after its removals: the
\* commands still listed that are done or timed out and not recurrent, the
\* done reads whose result attribute_dict does not hold, the recurrent commands
\* removed that are not listed again behind a pending delay
Leftovers(w, w1, remove_list) ==
    LET Listed(v) == {v.command_list[i] : i \in 1..Len(v.command_list)}
    IN  [left |-> {c \in Listed(w1) : /\ ~w1.cmd[c].recurrent
                                       /\ (w1.cmd[c].done \/ w1.cmd[c].timed_out)},
         unsaved |-> {c \in Listed(w) : /\ w.cmd[c].done
                                        /\ w.cmd[c].operation = "read"
                                        /\ get_attribute(w1, w.cmd[c].name) # w.cmd[c].attr_result},
         unarmed |-> {c \in {remove_list[i] : i \in 1..Len(remove_list)} :
                         /\ w.cmd[c].recurrent
                         /\ ~ /\ c \in Listed(w1)
                              /\ w1.cmd[c].pending
                              /\ \E d \in CondObjs(w1.cmd[c]) :
                                     /\ w1.cmd[d].operation = "delay"
                                     /\ w1.cmd[d].pending
                                     /\ w1.cmd[d].delay_timer # NoTimer}]

device_command_cb(w0, cmd_d) ==
    Once(w0, LAMBDA w :
    Once(Scan(w, [remove_list |-> <<>>, reset_flag |-> FALSE,
                  new_state |-> "None", new_status |-> "",
                  status_msg |-> w.status_msg,
                  attribute_dict |-> w.attribute_dict, seen |-> {}], 1), LAMBDA acc :
    Once(release(RemoveAll([acquire(w) EXCEPT !.status_msg = acc.status_msg,
                                              !.attribute_dict = acc.attribute_dict],
                           acc.remove_list, 1)), LAMBDA w1 :
    Once([(IF acc.reset_flag THEN reset_watchdog(w1) ELSE w1)
             EXCEPT !.observed.worse =
                        IF acc.seen # {"UNKNOWN", "ALARM"} THEN "None"
                        ELSE IF acc.new_state = "UNKNOWN" THEN "kept" ELSE "lost",
                    !.observed.scan = Leftovers(w, w1, acc.remove_list)], LAMBDA w3 :
    Once(IF acc.new_state # "None"
         THEN set_state(set_status(w3, acc.new_status, TRUE), acc.new_state)
         ELSE w3, LAMBDA w4 :
        [w4 EXCEPT !.observed.timeout =
            IF \A i \in 1..Len(acc.remove_list) : ~w.cmd[acc.remove_list[i]].timed_out
            THEN "None"
            ELSE IF InSeq("Command timeout", get_status(w4)) THEN "shown" ELSE "wiped"])))))

camera_state_cb(w0, c) ==
    Once(w0, LAMBDA w :
        LET attr == w.cmd[c].attr_result
            camera_state == attr.value
            start_queued == \E i \in 1..Len(w.command_list) :
                                w.cmd[w.command_list[i]].name = "start"
        IN  IF attr.isNone THEN w   \* AttributeError, caught by notify_subscribers
            ELSE Once(IF camera_state \in {"ON", "STANDBY"} /\ ~start_queued
                      THEN release(
                               Made(acquire(w),
                                    DeviceCommand("start", "command", w.device, "None",
                                                  FALSE, DefaultPeriod, CmdTimeout),
                                    LAMBDA w1, start_cmd :
                                        command_list_append(start(w1, start_cmd), start_cmd)))
                      ELSE w,
                      LAMBDA w2 :
                          IF w2.state # camera_state THEN set_state(w2, camera_state)
                          ELSE w2))

init_parameters_ready(w, c) == notify_all(w, "wakeup_condition_var")

unknown_connect_ready(w0, c) ==
    Once(w0, LAMBDA w :
        IF w.cmd[c].done THEN notify_all(w, "wakeup_condition_var") ELSE w)

-----------------------------------------------------------------------------
(* class DeviceCommand: the callbacks *)

Subscriber(kind) == [kind |-> kind, obj |-> 0]

\* subscriber(self)
CallSubscriber(w, s, c) ==
    CASE s.kind = "check_condition" -> check_condition(w, s.obj, c)
      [] s.kind = "device_command_cb" -> device_command_cb(w, c)
      [] s.kind = "camera_state_cb" -> camera_state_cb(w, c)
      [] s.kind = "init_parameters_ready" -> init_parameters_ready(w, c)
      [] s.kind = "unknown_connect_ready" -> unknown_connect_ready(w, c)
      [] OTHER -> w

RECURSIVE NotifyFrom(_, _, _, _)
NotifyFrom(w0, subscriber_list, c, i) ==
    Once(w0, LAMBDA w :
        IF i > Len(subscriber_list) THEN w
        ELSE NotifyFrom(CallSubscriber(w, subscriber_list[i], c), subscriber_list, c, i + 1))

notify_subscribers(w0, c) ==
    Once(w0, LAMBDA w :
        NotifyFrom([w EXCEPT !.hist[c].notes = @ + 1], w.cmd[c].subscriber_list, c, 1))

\* exec_post_actions without the test of self.state
exec_post_actions_always_done(w0, c) ==
    Once(w0, LAMBDA w :
        notify_subscribers(
            [w EXCEPT !.cmd[c].pending = FALSE,
                      !.cmd[c].done = TRUE,
                      !.hist[c].doneby = w.hist[c].result], c))

\* exec_post_actions that leaves pending alone
exec_post_actions_keeps_pending(w0, c) ==
    Once(w0, LAMBDA w :
        LET o == w.cmd[c]
        IN  notify_subscribers(
                [w EXCEPT !.cmd[c] =
                    IF o.state = "ON"
                    THEN [o EXCEPT !.done = TRUE, !.status_msg = "Command finished"]
                    ELSE [o EXCEPT !.done = FALSE],
                          !.hist[c].doneby =
                    IF o.state = "ON" THEN w.hist[c].result ELSE "None"], c))

exec_post_actions(w0, c) ==
    Once(w0, LAMBDA w :
        LET o == w.cmd[c]
        IN  notify_subscribers(
                [w EXCEPT !.cmd[c] =
                    IF o.state = "ON"
                    THEN [o EXCEPT !.pending = FALSE, !.done = TRUE,
                                   !.status_msg = "Command finished"]
                    ELSE [o EXCEPT !.pending = FALSE, !.done = FALSE],
                          !.hist[c].ended =
                    IF ~o.pending THEN @
                    ELSE IF o.state = "ON" THEN "success" ELSE "fault",
                          !.hist[c].stale = @ \/ w.hist[c].cancelled,
                          !.hist[c].doneby =
                    IF o.state = "ON" THEN w.hist[c].result ELSE "None",
                          !.observed.unreset =
                    @ \/ (o.state = "ON" /\ o.operation # "delay" /\ w.watchdog_timer # NoTimer),
                          !.observed.read =
                    IF /\ o.state = "ON" /\ o.operation = "read"
                       /\ InSeq([kind |-> "device_command_cb", obj |-> 0], o.subscriber_list)
                    THEN (o.name :> o.attr_result) @@ @ ELSE @], c))

\* _attribute_cb(attr_future): result is "ok", "cancelled", "ValueError" or a fault
\* reason, attr the attribute of an "ok" future; a delay timer calls it with "ok"
attribute_cb(w0, c, result, attr) ==
    Once(w0, LAMBDA w :
        LET o == w.cmd[c]
        IN  CASE result = "cancelled" -> w
              [] result = "ValueError" ->
                     [w EXCEPT !.cmd[c].status_msg = "Value error for device concurrent callback"]
              [] result = "ok" ->
                     exec_post_actions(
                         [w EXCEPT !.cmd[c].attr_result = attr,
                                   !.cmd[c].status_msg =
                                       IF attr.isNone THEN @ ELSE "Attribute result received",
                                   !.hist[c].result = result], c)
              [] FaultState(result) = "rethrow" ->
                     [w EXCEPT !.hist[c].faulted = TRUE, !.hist[c].result = result,
                               !.hist[c].raised = TRUE]
              [] OTHER ->
                     Once(exec_post_actions(
                              [w EXCEPT !.cmd[c].state = FaultState(result),
                                        !.cmd[c].status_msg = result,
                                        !.cmd[c].attr_result = NoAttr,
                                        !.hist[c].faulted = TRUE,
                                        !.hist[c].result = result], c),
                          LAMBDA w1 :
                              [w1 EXCEPT
                                  !.hist[c].moved = @ \/ w1.attribute_dict # w.attribute_dict,
                                  !.hist[c].listed = InSeq(c, w.command_list),
                                  !.hist[c].left = w1.state,
                                  !.hist[c].kept =
                                      /\ w1.device = w.device
                                      /\ \A d \in 1..Len(w.cmd) :
                                             d # c /\ w.cmd[d].pending => w1.cmd[d].pending]))

\* _timeout_cb up to self.status_msg = "Command timeout"
timeout_cb_flags(w0, c) ==
    Once(w0, LAMBDA w :
        LET w1 == cancel(w, c)
        IN  [w1 EXCEPT !.cmd[c].pending = FALSE,
                       !.cmd[c].done = FALSE,
                       !.cmd[c].timed_out = TRUE,
                       !.cmd[c].status_msg = "Command timeout",
                       !.hist[c].cancelled = w.hist[c].cancelled,
                       !.hist[c].ended = IF w.cmd[c].pending THEN "timeout" ELSE @])

\* _timeout_cb from self.state = pt.DevState.ALARM on
timeout_cb_notify(w0, c) ==
    Once(w0, LAMBDA w :
    Once(notify_subscribers([w EXCEPT !.cmd[c].state = "ALARM"], c), LAMBDA w1 :
        [w1 EXCEPT !.hist[c].moved = @ \/ w1.attribute_dict # w.attribute_dict]))

-----------------------------------------------------------------------------
(* class CameraDeviceController: the methods of the thread and of the caller *)

\* the parameters __main__ passes, of which the constructor's parameter_dict
\* holds the first env.params
Parameters == <<[name |-> "imagewidth", value |-> "1000"],
                [name |-> "imageheight", value |-> "300"]>>

parameter_dict(w) == SubSeq(Parameters, 1, w.env.params)

\* the polled attributes init_handler sets up: name, period, subscriber_method
PolledAttributes ==
    <<[name |-> "state", period |-> 250, subscriber_method |-> "camera_state_cb"],
      [name |-> "gain", period |-> 2000, subscriber_method |-> "None"],
      [name |-> "exposuretime", period |-> 2000, subscriber_method |-> "None"],
      [name |-> "image", period |-> 100, subscriber_method |-> "None"]>>

RECURSIVE CancelAll(_, _)
CancelAll(w0, i) ==
    Once(w0, LAMBDA w :
        IF i > Len(w.command_list) THEN w
        ELSE CancelAll(cancel(w, w.command_list[i]), i + 1))

disconnect(w0) ==
    Once(w0, LAMBDA w :
        LET w1 == release(set_command_list(CancelAll(acquire(stop_watchdog(w)), 1), <<>>))
        IN  set_state([w1 EXCEPT !.device = FALSE], "UNKNOWN"))

connect(w0) ==
    Once(w0, LAMBDA w :
        LET w1 == set_state([disconnect(w) EXCEPT !.device = FALSE], "UNKNOWN")
        IN  [w1 EXCEPT !.dev_future = Append(@, [age |-> 0])])

stop_thread(w0) ==
    Once(w0, LAMBDA w :
        disconnect(notify_all([w EXCEPT !.stop_state_thread_flag = TRUE,
                                        !.stopped_in = w.state],
                              "wakeup_condition_var")))

add_polled_attribute(w0, attr_name, period, subscriber_method) ==
    Once(acquire(w0), LAMBDA w : release(
    Made([w EXCEPT !.attribute_dict = (attr_name :> EmptyDeviceAttribute) @@ @],
         DeviceCommand(attr_name, "read", w.device, "None", TRUE, period, CmdTimeout),
         LAMBDA w1, dev_cmd :
             LET w2 == IF subscriber_method # "None"
                       THEN add_subscriber(w1, dev_cmd, Subscriber(subscriber_method))
                       ELSE w1
                 w3 == command_list_append(w2, dev_cmd)
             IN  start(add_subscriber(w3, dev_cmd, Subscriber("device_command_cb")), dev_cmd))))

\* write_attribute whose read does not wait for the delay
write_attribute_ungated(w0, attr_name, value) ==
    Once(acquire(w0), LAMBDA w : release(
    Made(w, DeviceCommand(attr_name, "write", w.device, value,
                          FALSE, DefaultPeriod, CmdTimeout), LAMBDA w1, prev_cmd :
    Made(command_list_append(start(add_subscriber(w1, prev_cmd, Subscriber("device_command_cb")), prev_cmd), prev_cmd),
         DeviceCommand("delay_w", "delay", w.device, WriteDelay,
                       FALSE, DefaultPeriod, CmdTimeout), LAMBDA w3, cmd_d :
    Made(start(add_condition(w3, cmd_d, prev_cmd), cmd_d),
         DeviceCommand(attr_name, "read", w.device, "None",
                       FALSE, DefaultPeriod, CmdTimeout), LAMBDA w5, c :
        LET w6 == [add_subscriber(w5, c, Subscriber("device_command_cb"))
                      EXCEPT !.hist[prev_cmd].chain = cmd_d,
                             !.hist[cmd_d].chain = cmd_d,
                             !.hist[c].chain = cmd_d]
        IN  command_list_append(start(w6, c), c))))))

write_attribute(w0, attr_name, value) ==
    Once(acquire(w0), LAMBDA w : release(
    Made(w, DeviceCommand(attr_name, "write", w.device, value,
                          FALSE, DefaultPeriod, CmdTimeout), LAMBDA w1, prev_cmd :
    Made(command_list_append(start(add_subscriber(w1, prev_cmd, Subscriber("device_command_cb")), prev_cmd), prev_cmd),
         DeviceCommand("delay_w", "delay", w.device, WriteDelay,
                       FALSE, DefaultPeriod, CmdTimeout), LAMBDA w3, cmd_d :
    Made(start(add_condition(w3, cmd_d, prev_cmd), cmd_d),
         DeviceCommand(attr_name, "read", w.device, "None",
                       FALSE, DefaultPeriod, CmdTimeout), LAMBDA w5, c :
        LET w6 == [add_subscriber(add_condition(w5, c, cmd_d), c,
                                  Subscriber("device_command_cb"))
                      EXCEPT !.hist[prev_cmd].chain = cmd_d,
                             !.hist[cmd_d].chain = cmd_d,
                             !.hist[c].chain = cmd_d]
        IN  command_list_append(start(w6, c), c))))))

RECURSIVE AddPolled(_, _)
AddPolled(w0, i) ==
    Once(w0, LAMBDA w :
        IF i > Len(PolledAttributes) THEN w
        ELSE AddPolled(add_polled_attribute(w, PolledAttributes[i].name, PolledAttributes[i].period,
                                            PolledAttributes[i].subscriber_method), i + 1))

\* init_handler, the loop over parameter_dict: the write and the read of one parameter
InitParameter(w0, param, stop_delay_cmd) ==
    Once(w0, LAMBDA w :
    Made(w, DeviceCommand(param.name, "write", w.device, param.value,
                          FALSE, DefaultPeriod, CmdTimeout), LAMBDA w1, wr :
    Made(start(command_list_append([add_subscriber(add_condition(w1, wr, stop_delay_cmd), wr,
                                      Subscriber("device_command_cb"))
                          EXCEPT !.hist[wr].chain = stop_delay_cmd], wr), wr),
         DeviceCommand(param.name, "read", w.device, "None",
                       FALSE, DefaultPeriod, CmdTimeout), LAMBDA w4, rd :
        LET w5 == add_subscriber(add_condition(w4, rd, wr), rd,
                                 Subscriber("device_command_cb"))
        IN  start(command_list_append([w5 EXCEPT !.hist[wr].chain = stop_delay_cmd,
                                    !.hist[rd].chain = stop_delay_cmd], rd), rd))))

RECURSIVE InitParameters(_, _, _)
InitParameters(w0, stop_delay_cmd, i) ==
    Once(w0, LAMBDA w :
        IF i > Len(parameter_dict(w)) THEN w
        ELSE InitParameters(InitParameter(w, parameter_dict(w)[i], stop_delay_cmd),
                            stop_delay_cmd, i + 1))

\* init_handler up to the wait: the command chain, then reset_watchdog
init_handler(w0) ==
    Once(w0, LAMBDA w :
    Made(acquire(w), DeviceCommand("stop", "command", w.device, "None",
                          FALSE, DefaultPeriod, CmdTimeout), LAMBDA w1, stop_cmd :
    Made(start(w1, stop_cmd),
         DeviceCommand("stop_delay", "delay", w.device, StopDelay,
                       FALSE, DefaultPeriod, CmdTimeout), LAMBDA w2, stop_delay_cmd :
    Once(InitParameters(start([add_condition(w2, stop_delay_cmd, stop_cmd)
                                  EXCEPT !.hist[stop_cmd].chain = stop_delay_cmd,
                                         !.hist[stop_delay_cmd].chain = stop_delay_cmd],
                              stop_delay_cmd),
                        stop_delay_cmd, 1), LAMBDA w4 :
    \* prev_cmd: the read of the last parameter, stop_cmd when there is none
    Once(IF Len(parameter_dict(w)) = 0 THEN stop_cmd ELSE Last(w4), LAMBDA prev_cmd :
    Made(w4, DeviceCommand("start", "command", w.device, "None",
                           FALSE, DefaultPeriod, CmdTimeout), LAMBDA w5, start_cmd :
        LET w6 == add_subscriber(add_condition(w5, start_cmd, prev_cmd), start_cmd,
                                 Subscriber("init_parameters_ready"))
            w7 == start(command_list_append([w6 EXCEPT !.hist[start_cmd].chain = stop_delay_cmd], start_cmd), start_cmd)
        IN  [reset_watchdog(release(w7)) EXCEPT !.thread.cmd = start_cmd]))))))

\* init_handler after the wait
init_waited(w0) ==
    Once(w0, LAMBDA w :
        IF w.cmd[w.thread.cmd].done
        THEN set_state(AddPolled(w, 1), "ON")
        ELSE set_command_list(release(CancelAll(acquire(w), 1)), <<>>))

\* unknown_handler after the wait for the connection, with a wait without
\* timeout when the connection was not made
unknown_connected_untimed(w0) ==
    Once(w0, LAMBDA w :
        IF w.device
        THEN Made(w, DeviceCommand("state", "read", w.device, "None",
                                   FALSE, DefaultPeriod, ProbeTimeout),
                  LAMBDA w1, state_cmd :
                      [start(add_subscriber(w1, state_cmd, Subscriber("unknown_connect_ready")),
                             state_cmd)
                          EXCEPT !.thread.cmd = state_cmd,
                                 !.thread.pc = "unknown_wait_probe",
                                 !.thread.wait = ProbeWait])
        ELSE [w EXCEPT !.thread.pc = "unknown_wait_backoff",
                       !.thread.wait = NoTimer])

\* unknown_handler after the wait for the connection
unknown_connected(w0) ==
    Once(w0, LAMBDA w :
        IF w.device
        THEN Made(w, DeviceCommand("state", "read", w.device, "None",
                                   FALSE, DefaultPeriod, ProbeTimeout),
                  LAMBDA w1, state_cmd :
                      [start(add_subscriber(w1, state_cmd, Subscriber("unknown_connect_ready")),
                             state_cmd)
                          EXCEPT !.thread.cmd = state_cmd,
                                 !.thread.pc = "unknown_wait_probe",
                                 !.thread.wait = ProbeWait])
        ELSE [w EXCEPT !.thread.pc = "unknown_wait_backoff",
                       !.thread.wait = ConnectionTimeout])

\* unknown_handler after the wait for the probe
unknown_probed(w0) ==
    Once(w0, LAMBDA w :
        LET w1 == [w EXCEPT !.thread.pc = "unknown_handler"]
        IN  IF w.cmd[w.thread.cmd].done THEN set_state(w1, "INIT") ELSE w1)

\* the handler statehandler_dict gives for a state (KeyError: unknown_handler)
statehandler_dict(s) ==
    CASE s \in {"ON", "STANDBY", "RUNNING", "ALARM"} -> "on_handler"
      [] s = "FAULT" -> "fault_handler"
      [] s = "INIT" -> "init_handler"
      [] s = "OFF" -> "off_handler"
      [] OTHER -> "unknown_handler"

\* the states an idle handler stays in
handled_states(pc) ==
    CASE pc = "on_handler" -> {"ON", "RUNNING", "STANDBY", "ALARM"}
      [] pc = "off_handler" -> {"OFF"}
      [] pc = "fault_handler" -> {"FAULT"}
      [] OTHER -> {}

-----------------------------------------------------------------------------
(* The state machine *)

World ==
    [cmd |-> cmd, futures |-> futures, timeout_running |-> timeout_running, hist |-> hist,
     device |-> device, state |-> state, status_msg |-> status_msg,
     state_cb_list |-> state_cb_list,
     attribute_dict |-> attribute_dict, command_list |-> command_list,
     watchdog_timer |-> watchdog_timer, stop_state_thread_flag |-> stop_state_thread_flag,
     dev_future |-> dev_future, thread |-> thread, stopped_in |-> stopped_in,
     observed |-> observed, env |-> env,
     lock |-> FALSE]        \* self.lock, which is free between the steps: a step
                            \* runs its handler or callback whole

\* what the history keeps of the watchdog
NothingObserved ==
    [unreset |-> FALSE,     \* a device operation completed with done = True since the
                            \* watchdog timer was last armed
     expired |-> "None",    \* what the last expiry of the watchdog timer was preceded
                            \* by: "silence" or "completion"
     forced |-> "None",     \* the watchdog set UNKNOWN while an idle handler ran:
                            \* "pending" until unknown_handler runs for it
     invoked |-> <<>>,      \* the calls of state callbacks the last set_state made
     registered |-> <<>>,   \* state_cb_list when set_state was last called
     scan |-> [left |-> {}, unsaved |-> {}, unarmed |-> {}],
                            \* Leftovers of the last scan of device_command_cb
     timeout |-> "None",    \* the last scan of device_command_cb removed a command
                            \* that had timed out: "shown" when get_status() has
                            \* "Command timeout" as the scan returns, else "wiped"
     bare |-> FALSE,        \* command_list was changed while self.lock was not held
     relocked |-> FALSE,    \* a thread that holds self.lock waits for self.lock
     worse |-> "None",      \* the last scan of device_command_cb met a command in
                            \* UNKNOWN and one in ALARM, neither done: "kept" when
                            \* it set UNKNOWN, "lost" when it set ALARM
     read |-> <<>>]         \* by attribute name: the result of the last read of it
                            \* that completed with done = True, of the reads that
                            \* device_command_cb subscribes to

\* the step to world w; a run creates no more than MaxCmd objects.  A step
\* whose thread waits for the lock it holds does not return: of its world only
\* the record of that is kept, and nothing runs after it
Apply(w) ==
    \E v \in {IF w.observed.relocked
               THEN [World EXCEPT !.observed.relocked = TRUE, !.env.sync = w.env.sync]
               ELSE w} :
        /\ ~observed.relocked
        /\ Len(v.cmd) <= env.objects
        /\ cmd' = v.cmd
        /\ futures' = v.futures
        /\ timeout_running' = v.timeout_running
        /\ hist' = v.hist
        /\ device' = v.device
        /\ state' = v.state
        /\ status_msg' = v.status_msg
        /\ state_cb_list' = v.state_cb_list
        /\ attribute_dict' = v.attribute_dict
        /\ command_list' = v.command_list
        /\ watchdog_timer' = v.watchdog_timer
        /\ stop_state_thread_flag' = v.stop_state_thread_flag
        /\ dev_future' = v.dev_future
        /\ thread' = v.thread
        /\ stopped_in' = v.stopped_in
        /\ observed' = v.observed
        /\ env' = v.env
        /\ twisted' = twisted

\* SpectrometerCameraState.State.__init__; name "None" stands for no object
State(name) ==
    [name |-> name, next_state |-> "None", running |-> FALSE, deferred_list |-> {}]

\* SpectrometerCameraState.StateDispatcher.__init__ and start(): the thread is
\* at the head of its loop
StateDispatcher ==
    [current_state |-> "unknown", stop_flag |-> FALSE, state_obj |-> State("None"),
     looping_calls |-> FALSE,   \* controller.looping_calls is not empty
     pc |-> "loop",             \* "loop", "enter", "entering", "run", "wait", "exit", "done"
     stopper |-> "idle",        \* a caller of stop(): "flag" after its stop_run()
     requested |-> FALSE,       \* history: stop_run() was called since state_enter() began
     left |-> [name |-> "None", new_state |-> "None"]]
                                \* history: the object the last state_exit() was called
                                \* on and what it returned

\* __init__: the controller after construction, its thread started
Constructed ==
    /\ cmd = <<>>
    /\ futures = <<>>
    /\ timeout_running = {}
    /\ hist = <<>>
    /\ device = FALSE
    /\ state = "UNKNOWN"
    /\ status_msg = <<>>
    /\ state_cb_list = <<>>
    /\ attribute_dict = <<>>
    /\ command_list = <<>>
    /\ watchdog_timer = NoTimer
    /\ stop_state_thread_flag = FALSE
    /\ dev_future = <<>>
    /\ thread = [pc |-> "dispatch", wait |-> NoTimer, cmd |-> 0]
    /\ stopped_in = "None"
    /\ observed = NothingObserved
    /\ twisted = StateDispatcher

\* the states the camera is in when it answers a read of "state"
CameraStates == {"RUNNING", "ON"}

\* the states of a camera that is switched off or fails
CameraStatesOff == {"ON", "OFF", "FAULT"}

\* the DeviceCommand objects one step creates at most: those of init_handler
NewObjects == 3 + 2 * Len(Parameters)

\* the controller of a device that may answer late, never or with a fault; its
\* owner does not stop it
InitFaulty ==
    /\ Constructed
    /\ env = [attr |-> <<>>, slow |-> MaxSlow, faults |-> MaxFaults, objects |-> MaxCmdFaulty,
              reliable |-> FALSE, mortal |-> FALSE, answers |-> 0, stops |-> 0,
              params |-> 1, writes |-> 0, callbacks |-> 0, room |-> 0, sync |-> 0, stall |-> 0,
              camera |-> CameraStates, serial |-> "none"]

\* the controller of a device that answers promptly and without fault
InitReliable ==
    /\ Constructed
    /\ env = [attr |-> <<>>, slow |-> 0, faults |-> 0, objects |-> MaxCmd,
              reliable |-> TRUE, mortal |-> FALSE, answers |-> 0, stops |-> 1,
              params |-> 1, writes |-> 0, callbacks |-> 0, room |-> 0, sync |-> 0, stall |-> 0,
              camera |-> CameraStates, serial |-> "none"]

\* the controller of a device that answers promptly and without fault until it
\* dies: after MaxAnswers device calls it answers nothing any more.  Its owner
\* does not stop it, the device answers its calls in their order, and the
\* timers that are due at one instant fire in the order of their objects
\* (InOrder)
InitDying ==
    /\ Constructed
    /\ env = [attr |-> <<>>, slow |-> 0, faults |-> 0, objects |-> MaxCmdDying,
              reliable |-> FALSE, mortal |-> TRUE, answers |-> MaxAnswers, stops |-> 0,
              params |-> 1, writes |-> 0, callbacks |-> 0, room |-> 0, sync |-> 0, stall |-> 0,
              camera |-> CameraStates, serial |-> "all"]

\* the controller with two parameters to set up, of a device that may answer
\* late; its owner does not stop it, and the timers that are due at one
\* instant fire in the order of their objects (InOrder)
InitTwoParameters ==
    /\ Constructed
    /\ env = [attr |-> <<>>, slow |-> MaxSlow, faults |-> 0, objects |-> MaxCmdTwo,
              reliable |-> FALSE, mortal |-> FALSE, answers |-> 0, stops |-> 0,
              params |-> Len(Parameters), writes |-> 0, callbacks |-> 0, room |-> 0, sync |-> 0, stall |-> 0,
              camera |-> CameraStates, serial |-> "timers"]

\* the controller of a device that answers promptly and without fault, with an
\* owner that registers state callbacks, calls write_attribute and does not
\* stop it; the device answers
\* its calls in their order (InTurn) and the timers that are due at one instant
\* fire in the order of their objects (InOrder)
InitOwner ==
    /\ Constructed
    /\ env = [attr |-> <<>>, slow |-> 0, faults |-> 0, objects |-> MaxCmdOwner,
              reliable |-> TRUE, mortal |-> FALSE, answers |-> 0, stops |-> 0,
              params |-> 1, writes |-> MaxWrites, callbacks |-> MaxCallbacks,
              room |-> 0, sync |-> 0, stall |-> 0, camera |-> CameraStates, serial |-> "all"]

\* the controller of a camera that may answer late or never and may be
\* switched off or fail, with an owner that stops the controller while the run
\* may still create the objects of one step (env.room); the device answers its
\* calls in their order (InTurn) and the timers that are due at one instant
\* fire in the order of their objects (InOrder)
InitStopped ==
    /\ Constructed
    /\ env = [attr |-> <<>>, slow |-> MaxSlow, faults |-> 0, objects |-> MaxCmdStopped,
              reliable |-> FALSE, mortal |-> FALSE, answers |-> 0, stops |-> 1,
              params |-> 1, writes |-> 0, callbacks |-> 0,
              room |-> NewObjects, sync |-> 0, stall |-> 0, camera |-> CameraStatesOff, serial |-> "all"]

\* the controller of a camera that answers promptly, once with a fault, and
\* may be switched off or fail, with an owner that stops the controller as in
\* InitStopped
InitStoppedFaulty ==
    /\ Constructed
    /\ env = [attr |-> <<>>, slow |-> 0, faults |-> 1, objects |-> MaxCmdStopped,
              reliable |-> FALSE, mortal |-> FALSE, answers |-> 0, stops |-> 1,
              params |-> 1, writes |-> 0, callbacks |-> 0,
              room |-> NewObjects, sync |-> 0, stall |-> 0, camera |-> CameraStatesOff, serial |-> "all"]

\* the controller of a camera that reports ON and answers promptly, one call
\* with a fault, by which the controller connects again
InitReconnect ==
    /\ Constructed
    /\ env = [attr |-> <<>>, slow |-> 0, faults |-> 1, objects |-> MaxCmdReconnect,
              reliable |-> FALSE, mortal |-> FALSE, answers |-> 0, stops |-> 0,
              params |-> 1, writes |-> 0, callbacks |-> 0, room |-> 0, sync |-> 0, stall |-> 0,
              camera |-> {"ON"}, serial |-> "all"]

\* the controller of a device that answers promptly and without fault, so
\* promptly that one of its futures is complete when its callback is registered
InitSynchronous ==
    /\ Constructed
    /\ env = [attr |-> <<>>, slow |-> 0, faults |-> 0, objects |-> MaxCmd,
              reliable |-> TRUE, mortal |-> FALSE, answers |-> 0, stops |-> 0,
              params |-> 1, writes |-> 0, callbacks |-> 0, room |-> 0, sync |-> MaxSync, stall |-> 0,
              camera |-> CameraStates, serial |-> "all"]

\* the controller of a device that answers promptly and without fault, with a
\* thread that can be held up before a wait
InitStalling ==
    /\ Constructed
    /\ env = [attr |-> <<>>, slow |-> 0, faults |-> 0, objects |-> MaxCmd,
              reliable |-> TRUE, mortal |-> FALSE, answers |-> 0, stops |-> 0,
              params |-> 1, writes |-> 0, callbacks |-> 0, room |-> 0, sync |-> 0,
              stall |-> MaxStall, camera |-> CameraStates, serial |-> "all"]

\* the controller of a camera that answers promptly and without fault and
\* reports INIT or RUNNING when its state is read; nothing is set up in INIT
\* but the stop and the start of the camera
InitReporting ==
    /\ Constructed
    /\ env = [attr |-> <<>>, slow |-> 0, faults |-> 0, objects |-> MaxCmdReporting,
              reliable |-> TRUE, mortal |-> FALSE, answers |-> 0, stops |-> 0,
              params |-> 0, writes |-> 0, callbacks |-> 0, room |-> 0, sync |-> 0,
              stall |-> 0, camera |-> {"INIT", "RUNNING"}, serial |-> "all"]

\* the controller of a device that answers without fault, MaxLate of its
\* calls late: as late as the timeout of a command is long; its owner does not
\* stop it, the device answers its calls in their order (InTurn) and the timers
\* that are due at one instant fire in the order of their objects (InOrder)
InitLate ==
    /\ Constructed
    /\ env = [attr |-> <<>>, slow |-> MaxLate, faults |-> 0, objects |-> MaxCmdLate,
              reliable |-> FALSE, mortal |-> FALSE, answers |-> 0, stops |-> 0,
              params |-> 1, writes |-> 0, callbacks |-> 0, room |-> 0, sync |-> 0,
              stall |-> 0, camera |-> CameraStates, serial |-> "all"]

Init ==
    \/ InitLate
    \/ InitReporting
    \/ InitStalling
    \/ InitSynchronous
    \/ InitFaulty
    \/ InitReliable
    \/ InitDying
    \/ InitTwoParameters
    \/ InitOwner
    \/ InitStopped
    \/ InitReconnect

(* the state-handler thread *)

\* statehandler_dispatcher: one turn of its loop, up to the call of the handler
Dispatcher ==
    /\ thread.pc = "dispatch"
    /\ IF stop_state_thread_flag
       THEN Apply([stop_watchdog(World) EXCEPT !.thread.pc = "exited"])
       ELSE Apply([World EXCEPT !.thread.pc = statehandler_dict(state)])

\* unknown_handler: the loop condition, connect() and the wait for the connection
UnknownHandler ==
    /\ thread.pc = "unknown_handler"
    /\ IF state = "UNKNOWN" /\ ~stop_state_thread_flag
       THEN Apply([connect(World) EXCEPT !.thread.pc = "unknown_wait_connect",
                                         !.thread.wait = ConnectWait,
                                         !.observed.forced = "None"])
       ELSE Apply([World EXCEPT !.thread.pc = "dispatch"])

\* the thread can be held up after state_cmd.start() and before its wait
\* (env.stall times in a run)
UnknownConnected ==
    /\ thread.pc = "unknown_connected"
    /\ \/ Apply(unknown_connected(World))
       \/ /\ env.stall > 0
          /\ device
          /\ Apply([unknown_connected(World) EXCEPT !.thread.pc = "unknown_probe_started",
                                                    !.thread.wait = NoTimer,
                                                    !.env.stall = @ - 1])

UnknownProbed ==
    /\ thread.pc = "unknown_probed"
    /\ Apply(unknown_probed(World))

\* the thread can be held up after start_cmd.start() and before its wait
InitHandler ==
    /\ thread.pc = "init_handler"
    /\ \/ Apply([init_handler(World) EXCEPT !.thread.pc = "init_wait",
                                            !.thread.wait = InitTimeout])
       \/ /\ env.stall > 0
          /\ Apply([init_handler(World) EXCEPT !.thread.pc = "init_started",
                                               !.env.stall = @ - 1])

\* the thread that was held up goes on: wakeup_condition_var.wait(timeout)
BeginWait ==
    /\ thread.pc \in {"unknown_probe_started", "init_started"}
    /\ Apply([World EXCEPT !.thread.pc = IF @ = "init_started" THEN "init_wait"
                                         ELSE "unknown_wait_probe",
                           !.thread.wait = IF thread.pc = "init_started" THEN InitTimeout
                                           ELSE ProbeWait])

InitWaited ==
    /\ thread.pc = "init_waited"
    /\ Apply([init_waited(World) EXCEPT !.thread.pc = "dispatch"])

\* on_handler, off_handler, fault_handler: the loop condition and the wait.  The wait
\* of an idle handler returns when it is notified or at some instant within its
\* timeout of 0.2 s (IdleWake), which the model does not count
IdleHandler ==
    /\ thread.pc \in {"on_handler", "off_handler", "fault_handler"}
    /\ IF state \in handled_states(thread.pc) /\ ~stop_state_thread_flag
       THEN Apply([World EXCEPT
                !.thread.pc = CASE thread.pc = "on_handler" -> "on_wait"
                                [] thread.pc = "off_handler" -> "off_wait"
                                [] OTHER -> "fault_wait"])
       ELSE Apply([World EXCEPT !.thread.pc = "dispatch"])

\* state_condition_var.wait(timeout) of an idle handler returns at its timeout
IdleWake ==
    /\ thread.pc \in {"on_wait", "off_wait", "fault_wait"}
    /\ Apply([World EXCEPT !.thread.pc = AfterWait(@)])

\* condition_var.wait(timeout) returns at its timeout
WaitTimeout ==
    /\ thread.wait = 0
    /\ Apply([World EXCEPT !.thread.pc = AfterWait(@), !.thread.wait = NoTimer])

(* the device and the timers *)

WithoutAt(s, i) == SubSeq(s, 1, i - 1) \o SubSeq(s, i + 1, Len(s))

\* the faults the device answers with: one of each kind _attribute_cb tells apart
DeviceFaults == {"API_DeviceTimedOut", "API_AttrNotAllowed", "Other"}

\* the values a read of an attribute of the camera can give
ReadValues(name) ==
    IF name = "state" THEN env.camera
    ELSE IF name \in DOMAIN env.attr THEN {env.attr[name]}
    ELSE {"0"}

\* the device is alive: it answers the calls made to it
Alive == ~env.mortal \/ env.answers > 0

\* x is the one of the timers S due at this instant that fires next: any of
\* them, the first of them in the serial configurations
InOrder(x, S) == env.serial # "none" => x = Min(S)

\* x is the one of the device calls S that is answered next: any of them, the
\* first of them with a device that answers its calls in their order
InTurn(x, S) == env.serial = "all" => x = Min(S)

\* the future of a device call completes and the device client calls _attribute_cb
FutureDone ==
    \E i \in 1..Len(futures) :
       LET c == futures[i].cmd
           o == cmd[c]
           w == [World EXCEPT !.futures = WithoutAt(@, i),
                              !.env.answers = IF env.mortal THEN @ - 1 ELSE @]
       IN  /\ Alive
           /\ futures[i].age \in Latencies
           /\ InTurn(i, {j \in 1..Len(futures) : futures[j].age \in Latencies})
           /\ \/ /\ o.operation = "read"
                 /\ \E v \in ReadValues(o.name) :
                       Apply(attribute_cb(w, c, "ok", DeviceAttribute(o.name, v, "ATTR_VALID")))
              \/ /\ o.operation = "write"
                 /\ Apply(attribute_cb([w EXCEPT !.env.attr = (o.name :> o.data) @@ @],
                                       c, "ok", NoAttr))
              \/ /\ o.operation = "command"
                 /\ Apply(attribute_cb(w, c, "ok", NoAttr))
              \/ /\ env.faults > 0
                 /\ \E reason \in DeviceFaults :
                       Apply(attribute_cb([w EXCEPT !.env.faults = @ - 1],
                                          c, reason, NoAttr))

\* connected_cb: the DeviceProxy future completes
ConnectedCb ==
    \E i \in 1..Len(dev_future) :
       LET w == [World EXCEPT !.dev_future = WithoutAt(@, i)]
       IN  /\ Alive
           /\ dev_future[i].age \in Latencies
           /\ \/ Apply(notify_all([w EXCEPT !.device = TRUE], "state_condition_var"))
              \/ /\ env.faults > 0
                 /\ \E reason \in {"API_DeviceNotExported"} :
                       Apply(notify_all(
                           [set_state(set_status([w EXCEPT !.env.faults = @ - 1],
                                                 reason, FALSE), "UNKNOWN")
                            EXCEPT !.device = FALSE], "state_condition_var"))

\* the delay timer of a delay command fires: _attribute_cb()
DelayFire ==
    \E c \in 1..Len(cmd) :
       /\ cmd[c].delay_timer = 0
       /\ InOrder(c, {x \in 1..Len(cmd) : cmd[x].delay_timer = 0})
       /\ Apply(attribute_cb([World EXCEPT !.cmd[c].delay_timer = NoTimer], c, "ok", NoAttr))

\* the timeout timer of a command fires: _timeout_cb, up to the status message
TimeoutFire ==
    \E c \in 1..Len(cmd) :
       /\ cmd[c].timeout_timer = 0
       /\ timeout_running = {}
       /\ InOrder(c, {x \in 1..Len(cmd) : cmd[x].timeout_timer = 0})
       /\ Apply([timeout_cb_flags(World, c) EXCEPT !.timeout_running = @ \cup {c}])

\* _timeout_cb goes on: the state and the subscribers
TimeoutNotify ==
    \E c \in timeout_running :
       Apply(timeout_cb_notify([World EXCEPT !.timeout_running = @ \ {c}], c))

\* watchdog_handler
WatchdogFire ==
    /\ watchdog_timer = 0
    /\ Apply(set_state(
           [World EXCEPT !.watchdog_timer = NoTimer,
                         !.observed.expired =
                             IF observed.unreset THEN "completion" ELSE "silence",
                         !.observed.unreset = FALSE,
                         !.observed.forced =
                             IF state \in handled_states("on_handler") THEN "pending" ELSE @],
           "UNKNOWN"))

\* the owner of the controller calls stop_thread()
StopThread ==
    /\ ~stop_state_thread_flag
    /\ env.stops > 0
    /\ Len(cmd) + env.room <= env.objects
    /\ Apply(stop_thread([World EXCEPT !.env.stops = @ - 1]))

\* what the owner writes
WrittenAttributes == {"gain"}

WrittenValues == {"7"}

\* the owner of the controller calls write_attribute(attr_name, value)
WriteAttribute ==
    /\ env.writes > 0
    /\ \E attr_name \in WrittenAttributes, value \in WrittenValues :
          Apply(write_attribute([World EXCEPT !.env.writes = @ - 1], attr_name, value))

\* the state callbacks of the owner, in the order in which it registers them
StateCallbacks == <<"change_state", "log_state", "count_state">>

\* the owner of the controller calls add_state_callback(cb)
AddStateCallback ==
    /\ env.callbacks > 0
    /\ Len(state_cb_list) < Len(StateCallbacks)
    /\ \E cb \in {StateCallbacks[Len(state_cb_list) + 1]} :
          Apply(add_state_callback([World EXCEPT !.env.callbacks = @ - 1], cb))

(* time *)

Armed(t) == IF t >= 0 THEN {t} ELSE {}

\* the time until a future can next complete
NextAnswer(age) == IF Alive THEN {l - age : l \in {x \in Latencies : x > age}} ELSE {}

\* what the timers and the futures have left
Remaining ==
    UNION {Armed(cmd[c].timeout_timer) \cup Armed(cmd[c].delay_timer) : c \in 1..Len(cmd)}
    \cup Armed(watchdog_timer) \cup Armed(thread.wait)
    \cup UNION {NextAnswer(futures[i].age) : i \in 1..Len(futures)}
    \cup UNION {NextAnswer(dev_future[i].age) : i \in 1..Len(dev_future)}

Elapse(t, d) == IF t >= 0 THEN t - d ELSE t

Older(a, d) == IF a + d > AgeCap THEN AgeCap ELSE a + d

\* the futures that go on after d: those the device still answers
Waiting(fs, d) ==
    LET keep == {i \in 1..Len(fs) : NextAnswer(fs[i].age) # {}}
        F[i \in 0..Len(fs)] ==
            IF i = 0 THEN <<>>
            ELSE IF i \in keep THEN Append(F[i - 1], [fs[i] EXCEPT !.age = @ + d])
            ELSE F[i - 1]
    IN  F[Len(fs)]

\* the futures that have not answered promptly
Late(fs) == IF Alive THEN Cardinality({i \in 1..Len(fs) : fs[i].age = FastLatency}) ELSE 0

\* time passes, up to the next instant at which a timer fires or a future can complete
Tick ==
    /\ \/ WaitVar(thread.pc) # "None"
       \/ thread.pc \in {"exited", "unknown_probe_started", "init_started"}
    /\ timeout_running = {}
    /\ Remaining # {}
    /\ LET d == Min(Remaining)
           late == Late(futures) + Late(dev_future)
       IN  /\ d > 0
           /\ late <= env.slow
           /\ cmd' = [c \in 1..Len(cmd) |->
                        [cmd[c] EXCEPT !.timeout_timer = Elapse(@, d),
                                       !.delay_timer = Elapse(@, d),
                                       !.age = IF cmd[c].recurrent THEN Older(@, d) ELSE @]]
           /\ hist' = [c \in 1..Len(hist) |->
                        [hist[c] EXCEPT !.since =
                            IF cmd[c].recurrent /\ @ >= 0 THEN Older(@, d) ELSE @]]
           /\ futures' = Waiting(futures, d)
           /\ dev_future' = Waiting(dev_future, d)
           /\ watchdog_timer' = Elapse(watchdog_timer, d)
           /\ thread' = [thread EXCEPT !.wait = Elapse(@, d)]
           /\ env' = [env EXCEPT !.slow = @ - late]
           /\ UNCHANGED <<timeout_running, device, state, status_msg, state_cb_list, attribute_dict,
                          command_list, stop_state_thread_flag, stopped_in, observed, twisted>>

Next ==
    \/ Dispatcher
    \/ UnknownHandler
    \/ UnknownConnected
    \/ UnknownProbed
    \/ InitHandler
    \/ BeginWait
    \/ InitWaited
    \/ IdleHandler
    \/ IdleWake
    \/ WaitTimeout
    \/ FutureDone
    \/ ConnectedCb
    \/ DelayFire
    \/ TimeoutFire
    \/ TimeoutNotify
    \/ WatchdogFire
    \/ StopThread
    \/ WriteAttribute
    \/ AddStateCallback
    \/ Tick

Spec == Init /\ [][Next]_vars

\* the steps of the state-handler thread
ThreadStep ==
    \/ Dispatcher
    \/ UnknownHandler
    \/ UnknownConnected
    \/ UnknownProbed
    \/ InitHandler
    \/ BeginWait
    \/ InitWaited
    \/ IdleHandler
    \/ IdleWake
    \/ WaitTimeout

\* the callbacks that the timer threads and the threads of the device client run
CallbackStep ==
    \/ FutureDone
    \/ ConnectedCb
    \/ DelayFire
    \/ TimeoutFire
    \/ TimeoutNotify
    \/ WatchdogFire

\* the configurations with an owner that acts
InitLive ==
    \/ InitStalling
    \/ InitStopped
    \/ InitStoppedFaulty
    \/ InitOwner

\* the threads run: the operating system schedules the state-handler thread
\* (a step it can take is taken), the timer threads and the threads of the
\* device client run the callbacks that are due, and time passes.  The owner
\* need not act.
SpecLive ==
    /\ InitLive
    /\ [][Next]_vars
    /\ WF_vars(ThreadStep)
    /\ WF_vars(CallbackStep)
    /\ WF_vars(Tick)

-----------------------------------------------------------------------------
(* A command gated on a source by a Condition with ranges, as in __main__ of  *)
(* DeviceController.py: gain_dc.add_condition(state_at, invalid_range=[...]) *)

\* the program is in world v
StartsIn(v) ==
    /\ cmd = v.cmd
    /\ futures = v.futures
    /\ timeout_running = v.timeout_running
    /\ hist = v.hist
    /\ device = v.device
    /\ state = v.state
    /\ status_msg = v.status_msg
    /\ state_cb_list = v.state_cb_list
    /\ attribute_dict = v.attribute_dict
    /\ command_list = v.command_list
    /\ watchdog_timer = v.watchdog_timer
    /\ stop_state_thread_flag = v.stop_state_thread_flag
    /\ dev_future = v.dev_future
    /\ thread = v.thread
    /\ stopped_in = v.stopped_in
    /\ observed = v.observed
    /\ env = v.env
    /\ twisted = StateDispatcher

\* a controller after construction that is left alone, with room for objects
Bench(objects) ==
    [cmd |-> <<>>, futures |-> <<>>, timeout_running |-> {}, hist |-> <<>>,
     device |-> FALSE, state |-> "UNKNOWN", status_msg |-> <<>>, state_cb_list |-> <<>>,
     attribute_dict |-> <<>>, command_list |-> <<>>, watchdog_timer |-> NoTimer,
     stop_state_thread_flag |-> FALSE, dev_future |-> <<>>,
     thread |-> [pc |-> "dispatch", wait |-> NoTimer, cmd |-> 0],
     stopped_in |-> "None", observed |-> NothingObserved,
     env |-> [attr |-> <<>>, slow |-> 0, faults |-> 0, objects |-> objects,
              reliable |-> TRUE, mortal |-> FALSE, answers |-> 0, stops |-> 0,
              params |-> 1, writes |-> 0, callbacks |-> 0, room |-> 0, sync |-> 0, stall |-> 0,
              camera |-> CameraStates, serial |-> "none"],
     lock |-> FALSE]

\* the values of the numeric attribute "gain"
Numbers == 0..MaxValue

\* the values of the attribute "state"
DevStates == {"ON", "FAULT", "UNKNOWN"}

Qualities == {"ATTR_VALID", "ATTR_INVALID", "ATTR_ALARM"}

\* [low boundary, high boundary]
NumericRanges == {<<lo, hi>> : lo \in Numbers, hi \in Numbers}

\* lists of numbers that are no pair of boundaries: enumerations
NumberLists == {<<1>>, <<0, 2, 3>>}

DevStateLists ==
    {<<a>> : a \in DevStates} \cup {r \in {<<a, b>> : a \in DevStates, b \in DevStates} : r[1] # r[2]}

\* the Python type of the values of the attribute
AttrType(name) == IF name = "state" THEN "DevState" ELSE "int"

\* the values the device has for the attribute
AttrValues(name) == IF name = "state" THEN DevStates ELSE Numbers

\* the ranges add_condition is called with: both of the same shape
RangeLists(name) ==
    IF name = "state" THEN {DevStateLists \cup {<<>>}}
    ELSE {{r \in NumericRanges : r[1] <= r[2]} \cup {<<>>}, NumberLists \cup {<<>>}}

Source == 1
Gated == 2

\* source = DeviceCommand(name, operation, dev); gated = DeviceCommand("double_scalar",
\* "read", dev); gated.add_condition(source, valid_range, invalid_range)
GatedBench(name, operation, valid_range, invalid_range) ==
    add_condition_ranges(
        New(New(Bench(2), DeviceCommand(name, operation, TRUE, "", FALSE, DefaultPeriod, CmdTimeout)),
            DeviceCommand("double_scalar", "read", TRUE, "", FALSE, DefaultPeriod, CmdTimeout)),
        Gated, Source, valid_range, invalid_range, AttrType(name))

InitCondition ==
    \E name \in {"state", "gain"}, operation \in {"read", "write"} :
        \E lists \in RangeLists(name) :
            \E valid_range \in lists, invalid_range \in lists :
                StartsIn(GatedBench(name, operation, valid_range, invalid_range))

\* the operation of the source completes: a read with an attribute, a write
\* with none
SourceCompletes ==
    /\ hist[Source].notes < MaxResults
    /\ IF cmd[Source].operation = "read"
       THEN \E v \in AttrValues(cmd[Source].name), q \in Qualities :
                Apply(attribute_cb(World, Source, "ok", DeviceAttribute(cmd[Source].name, v, q)))
       ELSE Apply(attribute_cb(World, Source, "ok", NoAttr))

\* the operation of the source fails
SourceFails ==
    /\ hist[Source].notes < MaxResults
    /\ Apply(attribute_cb(World, Source, "API_DeviceTimedOut", NoAttr))

\* gated.start()
StartGated ==
    /\ hist[Gated].starts = 0
    /\ Apply(start(World, Gated))

NextCondition ==
    \/ SourceCompletes
    \/ SourceFails
    \/ StartGated

SpecCondition == InitCondition /\ [][NextCondition]_vars

\* the Condition of the gated command
GatedCondition == cmd[Gated].condition_dict[1]

\* the Condition was evaluated for the attribute the source holds: the source
\* is done and has notified
Evaluated == cmd[Source].done /\ hist[Source].notes > 0

\* the source holds an attribute of valid quality
ValidValue == ~cmd[Source].attr_result.isNone /\ cmd[Source].attr_result.quality = "ATTR_VALID"

-----------------------------------------------------------------------------
(* SpectrometerCameraState.py: the StateDispatcher of the twisted controller, *)
(* its thread, the callbacks of the deferreds and the callers of stop() and   *)
(* send_command()                                                             *)

controller_vars ==
    <<cmd, futures, timeout_running, hist, device, state, status_msg, state_cb_list,
      attribute_dict, command_list, watchdog_timer, stop_state_thread_flag, dev_future,
      thread, stopped_in, observed, env>>

\* the names statehandler_dict has a class for; StateFault is stored under the
\* class, not under its name
StateNames == {"unknown", "device_connect", "setup_attributes", "running", "on"}

\* State.stop_run: notify_all wakes the thread when it waits in run()
stop_run(t) ==
    [t EXCEPT !.state_obj.running = FALSE,
              !.pc = IF @ = "wait" THEN "exit" ELSE @,
              !.requested = @ \/ t.pc \in {"enter", "entering", "run", "wait"}]

stop_looping_calls(t) == [t EXCEPT !.looping_calls = FALSE]

\* state_error(err) of the class of the state object, err no CancelledError
state_error(t) ==
    CASE t.state_obj.name \in {"device_connect", "setup_attributes"} ->
             stop_run([t EXCEPT !.state_obj.next_state = "unknown"])
      [] t.state_obj.name = "running" ->
             IF t.state_obj.running
             THEN stop_run([stop_looping_calls(t) EXCEPT !.state_obj.next_state = "unknown"])
             ELSE t
      [] t.state_obj.name = "on" ->
             stop_run([stop_looping_calls(t) EXCEPT !.state_obj.next_state = "unknown"])
      [] OTHER -> t

\* check_requirements(result) of the class of the state object
check_requirements(t) ==
    CASE t.state_obj.name = "unknown" ->
             stop_run([t EXCEPT !.state_obj.next_state = "device_connect"])
      [] t.state_obj.name = "device_connect" ->
             stop_run([t EXCEPT !.state_obj.next_state = "setup_attributes"])
      [] t.state_obj.name = "setup_attributes" ->
             stop_run([t EXCEPT !.state_obj.next_state = "running"])
      [] t.state_obj.name \in {"running", "on"} -> t
      [] OTHER -> [t EXCEPT !.state_obj.next_state = "None"]

\* check_message(msg) of the class of the state object
check_message(t, msg) ==
    CASE t.state_obj.name = "running" /\ msg = "stop" ->
             stop_run([stop_looping_calls(t) EXCEPT !.state_obj.deferred_list = {},
                                                    !.state_obj.next_state = "on"])
      [] t.state_obj.name = "on" /\ msg = "start" ->
             stop_run([stop_looping_calls(t) EXCEPT !.state_obj.deferred_list = {},
                                                    !.state_obj.next_state = "running"])
      [] OTHER -> t

\* StateDispatcher.set_state(state_name): None has no upper(), the
\* AttributeError is caught
StateDispatcher_set_state(t, state_name) ==
    [t EXCEPT !.current_state = IF state_name = "None" THEN "unknown" ELSE state_name]

\* the callback or the errback of deferred d fires
Fired(t0, d, ok) ==
    LET t == [t0 EXCEPT !.state_obj.deferred_list = @ \ {d}]
    IN  CASE d = "later" -> check_requirements(t)
          [] d = "stop_on" ->
                 IF ok THEN [t EXCEPT !.state_obj.deferred_list = @ \cup {"attrs"}]
                 ELSE state_error(t)
          [] OTHER -> IF ok THEN check_requirements(t) ELSE state_error(t)

\* what state_exit returns after it has cancelled the deferreds: a cancelled
\* DeferredList of device calls runs the callbacks of the state object, as far
\* as the device calls fire when they are cancelled
Returned(o) ==
    IF "connect" \in o.deferred_list THEN {o.next_state, "setup_attributes", "unknown"}
    ELSE IF o.deferred_list \cap {"stop_on", "attrs"} # {}
    THEN {o.next_state, "running", "unknown"}
    ELSE {o.next_state}

\* statehandler_dispatcher: the head of the loop, up to the call of state_enter
StatehandlerDispatcher ==
    /\ twisted.pc = "loop"
    /\ twisted' =
           IF twisted.stop_flag THEN [twisted EXCEPT !.pc = "done"]
           ELSE [twisted EXCEPT !.state_obj = IF twisted.current_state \in StateNames
                                              THEN State(twisted.current_state) ELSE @,
                                !.pc = "enter",
                                !.requested = FALSE]
    /\ UNCHANGED controller_vars

\* state_enter, its first part: State.state_enter sets running, StateUnknown
\* schedules check_requirements
StateEnter ==
    /\ twisted.pc = "enter"
    /\ twisted' =
           IF twisted.state_obj.name = "unknown"
           THEN [twisted EXCEPT !.state_obj.deferred_list = @ \cup {"later"}, !.pc = "entering"]
           ELSE [twisted EXCEPT !.state_obj.running = TRUE, !.pc = "entering"]
    /\ UNCHANGED controller_vars

\* state_enter, the rest: the deferreds of the class, and for StateUnknown
\* self.running = True
StateEntering ==
    /\ twisted.pc = "entering"
    /\ twisted' =
           CASE twisted.state_obj.name = "unknown" ->
                    [twisted EXCEPT !.state_obj.running = TRUE, !.pc = "run"]
             [] twisted.state_obj.name = "device_connect" ->
                    [twisted EXCEPT !.state_obj.deferred_list = @ \cup {"connect"}, !.pc = "run"]
             [] twisted.state_obj.name = "setup_attributes" ->
                    [twisted EXCEPT !.state_obj.deferred_list = @ \cup {"stop_on"}, !.pc = "run"]
             [] twisted.state_obj.name = "running" ->
                    [twisted EXCEPT !.state_obj.deferred_list = @ \cup {"start"},
                                    !.looping_calls = TRUE, !.pc = "run"]
             [] twisted.state_obj.name = "on" ->
                    [twisted EXCEPT !.state_obj.deferred_list = @ \cup {"stop"},
                                    !.looping_calls = TRUE, !.pc = "run"]
             [] OTHER -> [twisted EXCEPT !.pc = "run"]
    /\ UNCHANGED controller_vars

\* State.run
StateRun ==
    /\ twisted.pc = "run"
    /\ twisted' = [twisted EXCEPT !.pc = IF twisted.state_obj.running THEN "wait" ELSE "exit"]
    /\ UNCHANGED controller_vars

\* new_state = state_exit(); self.set_state(new_state)
StateExit ==
    /\ twisted.pc = "exit"
    /\ \E new_state \in Returned(twisted.state_obj) :
           twisted' = [StateDispatcher_set_state(twisted, new_state) EXCEPT
                          !.state_obj.deferred_list = {},
                          !.state_obj.next_state = new_state,
                          !.left = [name |-> twisted.state_obj.name, new_state |-> new_state],
                          !.pc = "loop"]
    /\ UNCHANGED controller_vars

\* a deferred of the state object fires
DeferredFires ==
    /\ \E d \in twisted.state_obj.deferred_list, ok \in BOOLEAN :
           /\ d = "later" => ok
           /\ twisted' = Fired(twisted, d, ok)
    /\ UNCHANGED controller_vars

\* a read of a looping call fails
LoopingCallFails ==
    /\ twisted.looping_calls
    /\ twisted' = state_error(twisted)
    /\ UNCHANGED controller_vars

\* StateDispatcher.send_command(msg)
SendCommand ==
    /\ twisted.state_obj.name # "None"
    /\ \E msg \in {"start", "stop"} : twisted' = check_message(twisted, msg)
    /\ UNCHANGED controller_vars

\* StateDispatcher.stop(): self._state_obj.stop_run()
Stop ==
    /\ twisted.stopper = "idle" /\ ~twisted.stop_flag
    /\ twisted.state_obj.name # "None"
    /\ twisted' = [stop_run(twisted) EXCEPT !.stopper = "flag"]
    /\ UNCHANGED controller_vars

\* StateDispatcher.stop(): self.stop_flag = True
StopFlag ==
    /\ twisted.stopper = "flag"
    /\ twisted' = [twisted EXCEPT !.stop_flag = TRUE, !.stopper = "idle"]
    /\ UNCHANGED controller_vars

\* the thread of the dispatcher
TwistedThread ==
    \/ StatehandlerDispatcher
    \/ StateEnter
    \/ StateEntering
    \/ StateRun
    \/ StateExit

NextTwisted ==
    \/ TwistedThread
    \/ DeferredFires
    \/ LoopingCallFails
    \/ SendCommand
    \/ Stop
    \/ StopFlag

InitTwisted == StartsIn(Bench(0))

SpecTwisted == InitTwisted /\ [][NextTwisted]_vars

\* the thread runs when it can, and the reactor fires the deferreds that are
\* pending; nobody need call stop() or send_command(), and no read need fail
SpecTwistedLive ==
    /\ InitTwisted
    /\ [][NextTwisted]_vars
    /\ WF_vars(TwistedThread)
    /\ WF_vars(DeferredFires)

-----------------------------------------------------------------------------
(* The properties *)

Cmds == 1..Len(cmd)

\* every dependency of d, through add_condition
RECURSIVE Closure(_, _)
Closure(S, n) ==
    IF n = 0 THEN S ELSE Closure(S \cup UNION {hist[x].gates : x \in S}, n - 1)

GatedOn(d) == Closure(hist[d].gates, Len(cmd))

\* nothing is in flight, armed or running, and the thread has exited
Settled ==
    /\ futures = <<>>
    /\ dev_future = <<>>
    /\ timeout_running = {}
    /\ Remaining = {}
    /\ thread.pc = "exited"

\* C1: a command never issues its operation while one of its conditions is
\* unfulfilled: at each issue every dependency in its condition_dict is done.
C1_IssuesOnlyWhenFulfilled ==
    \A c \in Cmds : ~hist[c].undone

\* C2: a command that completed is not turned timed_out by its timeout timer,
\* and its subscribers are notified of one outcome per start().
C2_OneTerminalOutcome ==
    \A c \in Cmds :
        hist[c].ended = "success" => ~cmd[c].timed_out /\ hist[c].notes <= 1

\* C3: timed_out and done are never both true of a command.
C3_TimedOutExcludesDone ==
    \A c \in Cmds : ~(cmd[c].timed_out /\ cmd[c].done)

\* C4: after cancel() a late completion callback of the command is a no-op: it
\* neither changes the flags of the cancelled command nor notifies.
C4_NoCallbackAfterCancel ==
    \A c \in Cmds : ~hist[c].stale

\* C5: the completion callback that receives a fault does not set done (done
\* is only ever set by a callback that received a result), and no command gated
\* on a faulted command, directly or through a chain, issues its operation.
C5_FaultBlocksDependents ==
    \A c \in Cmds :
        /\ cmd[c].done => hist[c].doneby = "ok"
        /\ hist[c].faulted =>
               \A d \in Cmds : c \in GatedOn(d) => hist[d].issues = 0

\* the write of the INIT chain faulted; the read and the start behind it ran into
\* their timeouts without having been issued
C5_Witness ==
    \E c, d, e \in Cmds :
        /\ hist[c].faulted /\ cmd[c].operation = "write" /\ ~cmd[c].done
        /\ c \in hist[d].gates /\ cmd[d].timed_out /\ hist[d].issues = 0
        /\ d \in hist[e].gates /\ cmd[e].timed_out /\ hist[e].issues = 0

\* C6: cancel() clears pending, cancels the delay and the timeout timer and
\* clears the conditions; it neither sets done nor notifies, touches nothing
\* else, and a second cancel() changes nothing.
C6_CancelIsQuietAndIdempotent ==
    \A c \in Cmds :
        \A w1 \in {cancel(World, c)} :
            /\ ~w1.cmd[c].pending
            /\ w1.cmd[c].delay_timer = NoTimer
            /\ w1.cmd[c].timeout_timer = NoTimer
            /\ w1.cmd[c].condition_dict = <<>>
            /\ w1.cmd[c].done = cmd[c].done
            /\ w1.hist[c].notes = hist[c].notes
            /\ [w1 EXCEPT !.cmd[c] = cmd[c], !.hist[c] = hist[c]] = World
            /\ cancel(w1, c) = w1

\* disconnect() cancelled a command that was pending with its timers armed
C6_Witness ==
    \E c \in Cmds :
        /\ hist[c].cancelled /\ hist[c].ended = "cancel"
        /\ ~cmd[c].pending /\ ~cmd[c].done /\ hist[c].notes = 0
        /\ cmd[c].timeout_timer = NoTimer /\ cmd[c].condition_dict = <<>>
        /\ hist[c].gates # {}

C8_StartIssuesAtOnce ==
    \A c \in Cmds :
        cmd[c].condition_dict = <<>> => start(World, c).hist[c].issues = 1

\* C8: start() of a command with an empty condition set that holds a device (or
\* is a delay) issues the operation once before it returns.
C8_StartWithDeviceIssuesAtOnce ==
    \A c \in Cmds :
        cmd[c].condition_dict = <<>> /\ (cmd[c].device \/ cmd[c].operation = "delay") =>
            \A w1 \in {start(World, c)} :
                w1.hist[c].issues = 1 /\ w1.cmd[c].pending

\* the controller started a command without conditions and its operation is
\* in flight
C8_Witness ==
    \E c \in Cmds : /\ hist[c].starts > 0 /\ hist[c].gates = {} /\ cmd[c].device
                    /\ hist[c].issues = 1 /\ cmd[c].pending
                    /\ \E i \in 1..Len(futures) : futures[i].cmd = c

\* C9: the issues of a recurring read are one period apart, whatever the
\* latency of the device, while the device answers promptly.
C9_StrictlyPeriodic ==
    env.reliable =>
        \A c \in Cmds :
            cmd[c].recurrent /\ hist[c].gap # NoTimer => hist[c].gap = cmd[c].period

\* C10: after stop_thread() was called while the controller polled in ON, no
\* device operation is issued, and once everything has settled the active
\* command set is empty.
C10_StoppedIsIdle ==
    stopped_in = "ON" =>
        /\ \A c \in Cmds : ~hist[c].poststop
        /\ Settled => command_list = <<>>

\* C11: when the watchdog timer expires while an idle handler runs (ON,
\* RUNNING, STANDBY, ALARM), the state it forces, UNKNOWN, is observed by the
\* state machine: the handler does not go back to its wait before
\* unknown_handler has run, whatever set_state calls of callbacks interleave.
C11_ForcedUnknownIsObserved ==
    ~(observed.forced = "pending" /\ thread.pc = "on_wait")

\* C12: every successful completion of a device operation re-arms the watchdog,
\* so that the watchdog timer expires only when no device operation completed
\* with done = True since it was armed.
C12_ExpiresOnlyInSilence ==
    observed.expired # "completion"

\* C13: once disconnect() has returned (here: the disconnect() of stop_thread(),
\* called while the controller polled, after which no connection is made) the
\* watchdog timer is not armed, the active command set is empty, the device
\* handle is dropped and the controller state is UNKNOWN, whatever completion
\* callbacks follow.
C13_DisconnectedStays ==
    stopped_in \in {"ON", "RUNNING"} =>
        /\ watchdog_timer = NoTimer
        /\ command_list = <<>>
        /\ ~device
        /\ state = "UNKNOWN"

\* C14: in UNKNOWN, when the connection is made and the probe read of "state"
\* has completed successfully within its timeout, unknown_handler sets the
\* controller state INIT when its wait returns.
C14_ProbedGoesToInit ==
    thread.pc = "unknown_probed" /\ hist[thread.cmd].ended = "success" =>
        unknown_probed(World).state = "INIT"

\* the probe read has completed with done = True, and the controller is in INIT
C14_Witness ==
    /\ state = "INIT"
    /\ thread.pc = "unknown_handler"
    /\ cmd[thread.cmd].name = "state" /\ cmd[thread.cmd].done
    /\ hist[thread.cmd].ended = "success"

\* C15: when the wait of init_handler returns and the start command is not
\* done, init_handler cancels every command of the active set, empties it, and
\* leaves the controller in UNKNOWN.
C15_FailedInitFallsBack ==
    thread.pc = "init_waited" /\ ~cmd[thread.cmd].done /\ ~stop_state_thread_flag =>
        \A w1 \in {init_waited(World)} :
            /\ \A i \in 1..Len(command_list) : ~w1.cmd[command_list[i]].pending
            /\ w1.command_list = <<>>
            /\ w1.state = "UNKNOWN"

\* C16: the INIT chain issues in its order: no parameter write before the stop
\* command and the settle delay have completed, no parameter read before the
\* write of that parameter has completed, and the start command not before
\* the reads of all parameters have completed.
C16_InitChainInOrder ==
    \A c \in Cmds : ~hist[c].early

\* the reads that write_attribute made to verify a write
VerifyingReads ==
    {c \in Cmds : /\ cmd[c].operation = "read" /\ hist[c].chain # 0
                  /\ cmd[hist[c].chain].name = "delay_w"}

\* the write that the read c verifies
WriteOf(c) == CHOOSE d \in Cmds : hist[d].chain = hist[c].chain /\ cmd[d].operation = "write"

\* the step in which the read c of a chain of write_attribute completes, the
\* chain being without fault
ChainCompletes(c) ==
    /\ hist[c].ended = "None" /\ hist'[c].ended = "success"
    /\ ~hist'[c].faulted /\ ~hist'[WriteOf(c)].faulted

NoDuplicate(list) ==
    \A i, j \in 1..Len(list) : i # j => list[i] # list[j]

\* the world in which the timeout of c and its completion have raced (claim
\* C3): c has timed out and is done
Raced(c) == [World EXCEPT !.cmd[c].timed_out = TRUE, !.cmd[c].done = TRUE]

\* C18: command_list holds no command twice, in every reachable state, and
\* also after the scan of device_command_cb that meets a recurring command
\* that has timed out and is done, which it removes and re-arms twice.
C18_NoCommandTwice ==
    /\ NoDuplicate(command_list)
    /\ \A i \in 1..Len(command_list) :
           cmd[command_list[i]].recurrent =>
               NoDuplicate(device_command_cb(Raced(command_list[i]),
                                             command_list[i]).command_list)

\* the active set holds a recurring read that was re-armed more than once, and
\* a command that is not recurring beside it
C18_Witness ==
    /\ Len(command_list) >= 5
    /\ \E c, d \in Cmds :
           /\ InSeq(c, command_list) /\ cmd[c].recurrent /\ hist[c].starts >= 3
           /\ InSeq(d, command_list) /\ ~cmd[d].recurrent

\* C19: _attribute_cb does not raise, whatever fault it receives, and the fault
\* it received last is recorded in the state of the command (UNKNOWN or ALARM)
\* and has been notified to the subscribers.
C19_FaultsRecordedNotRaised ==
    \A c \in Cmds :
        /\ ~hist[c].raised
        /\ hist[c].result \notin {"None", "ok"} =>
               cmd[c].state \in {"UNKNOWN", "ALARM"} /\ hist[c].notes >= 1

\* C20: the completion callback of a command of the active set that receives
\* a transport fault leaves the controller in UNKNOWN; one that receives a
\* not-allowed fault leaves it in ALARM, with the device handle and the other
\* pending commands as they were.
C20_FaultsForceState ==
    \A c \in Cmds :
        hist[c].listed =>
            /\ FaultState(hist[c].result) = "UNKNOWN" => hist[c].left = "UNKNOWN"
            /\ FaultState(hist[c].result) = "ALARM" =>
                   hist[c].left = "ALARM" /\ hist[c].kept

\* the names an attribute has been stored or read under
AttributeNames == DOMAIN attribute_dict \cup DOMAIN observed.read

\* C21: get_attribute(name) returns none for an attribute that was never read
\* and otherwise the result of the last read of that name that completed with
\* done = True (of the reads the controller puts in its active set; the probe
\* of unknown_handler is not one); a read that faults or times out leaves attribute_dict as it is.
C21_LatestReadOrNone ==
    /\ \A name \in AttributeNames :
           get_attribute(World, name) =
               IF name \in DOMAIN observed.read THEN observed.read[name] ELSE NoAttr
    /\ \A c \in Cmds : ~hist[c].moved

\* the part of C21 about the reads that fault or time out
C21_FailedReadKeepsSnapshots == \A c \in Cmds : ~hist[c].moved

\* C22: the set_state call that made the last state transition has called each
\* registered state callback once, in the order of registration, before it
\* returned, with the new state and the status message of the controller at
\* the time of the call (the state and an empty text: set_state has just reset
\* it).
C22_CallbacksInvoked ==
    /\ Len(observed.invoked) = Len(observed.registered)
    /\ \A i \in 1..Len(observed.invoked) :
           observed.invoked[i] = [cb |-> observed.registered[i], new_state |-> state,
                                  status |-> <<state, "">>]

\* set_state(ON) has called two different state callbacks, and a third call of
\* set_state with the state unchanged has called them again
C22_Witness ==
    /\ state = "ON"
    /\ Len(observed.invoked) = 2
    /\ observed.invoked[1].cb # observed.invoked[2].cb
    /\ observed.invoked[2].new_state = "ON"

Rearmed(c) == hist'[c].gates \ hist[c].gates

\* C24: the delay command that device_command_cb chains before a recurring
\* command it re-arms holds lastStart + period - now (period less the time
\* since the start() of the run that completed) and its timer runs for the
\* larger of that and 0.
C24_RearmDelay ==
    [][\A c \in 1..Len(cmd) :
          cmd[c].recurrent =>
              \A d \in Rearmed(c) :
                  /\ cmd'[d].operation = "delay"
                  /\ cmd'[d].data = cmd[c].period - cmd[c].age
                  /\ cmd'[d].pending
                  /\ cmd'[d].delay_timer = Max(0, cmd[c].period - cmd[c].age)]_vars

\* a recurring read completed later than one period after its start(): the
\* delay that gates its next run is armed with 0
C24_Witness ==
    \E c, d \in Cmds :
        /\ cmd[c].recurrent /\ cmd[c].pending /\ d \in hist[c].gates
        /\ cmd[d].operation = "delay" /\ cmd[d].pending
        /\ cmd[d].data < 0 /\ cmd[d].delay_timer = 0

\* C25: a scan of device_command_cb that meets a command in UNKNOWN and a
\* command in ALARM, neither of them done, sets the controller state UNKNOWN,
\* in whatever order the two are in command_list.
C25_UnknownWins == observed.worse # "lost"

\* C26: a scan of device_command_cb leaves behind no listed command that is done
\* or timed out and not recurrent, no done read whose result attribute_dict
\* does not hold under its name, and no removed recurrent command that is not
\* listed again, pending behind a pending delay; also when the scan meets a
\* recurring command that has timed out and is done.
C26_ScanLeavesNothing ==
    LET clean == [left |-> {}, unsaved |-> {}, unarmed |-> {}]
    IN  /\ observed.scan = clean
        /\ \A i \in 1..Len(command_list) :
               cmd[command_list[i]].recurrent =>
                   device_command_cb(Raced(command_list[i]),
                                     command_list[i]).observed.scan = clean

\* a scan has removed a done command that is not recurrent and a done recurring
\* read: the read is listed, pending behind a pending delay, and attribute_dict
\* holds its result
C26_Witness ==
    \E c, d, e \in Cmds :
        /\ InSeq(c, command_list) /\ cmd[c].recurrent /\ hist[c].starts >= 2
        /\ cmd[c].pending /\ d \in CondObjs(cmd[c])
        /\ cmd[d].operation = "delay" /\ cmd[d].pending
        /\ ~cmd[c].attr_result.isNone
        /\ get_attribute(World, cmd[c].name) = cmd[c].attr_result
        /\ ~cmd[e].recurrent /\ cmd[e].done /\ ~InSeq(e, command_list)
        /\ InSeq(Subscriber("device_command_cb"), cmd[e].subscriber_list)

\* C27: when a scan of device_command_cb removes a command that has timed out,
\* get_status() has the text "Command timeout" when device_command_cb returns.
C27_TimeoutStatusReadable == observed.timeout # "wiped"

\* C28: every append to command_list, every removal from it and every
\* assignment to it is made while self.lock is held.
C28_MutatedUnderLock == ~observed.bare

\* the start command of the INIT chain has completed successfully and
\* init_handler, which waits for it, has not yet gone on (in a run that has
\* objects left for the reads)
StartCompleted ==
    /\ Len(cmd) + Len(PolledAttributes) <= env.objects
    /\ thread.pc \in {"init_wait", "init_waited"}
    /\ cmd[thread.cmd].name = "start"
    /\ hist[thread.cmd].ended = "success"

\* command_list holds a started recurring read for each polled attribute, with
\* its period
PolledRegistered ==
    \A i \in 1..Len(PolledAttributes) :
        \E j \in 1..Len(command_list) :
            LET c == command_list[j]
            IN  /\ cmd[c].operation = "read" /\ cmd[c].recurrent
                /\ cmd[c].name = PolledAttributes[i].name
                /\ cmd[c].period = PolledAttributes[i].period
                /\ InSeq(Subscriber("device_command_cb"), cmd[c].subscriber_list)
                /\ hist[c].starts >= 1

\* C29: when the start command of the INIT chain has completed, the step in
\* which init_handler goes on leaves the recurring reads of state, gain,
\* exposuretime and image in command_list, started, and the controller in ON.
C29_StartThenPolledThenOn ==
    [][StartCompleted /\ thread.pc' \notin {"init_wait", "init_waited"}
          => PolledRegistered' /\ state' = "ON"]_vars

\* the INIT chain has completed with its start command, the polled reads are
\* listed and pending, and the controller is in ON with its thread in on_handler
C29_Witness ==
    /\ PolledRegistered /\ state = "ON" /\ ~stop_state_thread_flag
    /\ thread.pc \in {"on_handler", "on_wait"}
    /\ cmd[thread.cmd].name = "start" /\ cmd[thread.cmd].done
    /\ \A j \in 1..Len(command_list) :
           cmd[command_list[j]].recurrent => cmd[command_list[j]].pending

\* the places of command_list that hold a command named start
StartCommands == {i \in 1..Len(command_list) : cmd[command_list[i]].name = "start"}

\* C30: command_list never holds two start commands.
C30_OneStartCommand == Cardinality(StartCommands) <= 1

-----------------------------------------------------------------------------
(* Conditions with ranges (SpecCondition) *)

\* value v is excluded by the invalid range of cd
Excluded(cd, v) ==
    IF cd.range_type = "range" THEN cd.invalid_range[1] < v /\ v < cd.invalid_range[2]
    ELSE InSeq(v, cd.invalid_range)

\* value v lies inside the valid range of cd
Included(cd, v) ==
    IF cd.range_type = "range" THEN cd.valid_range[1] < v /\ v < cd.valid_range[2]
    ELSE InSeq(v, cd.valid_range)

BothRanges == GatedCondition.valid_range # <<>> /\ GatedCondition.invalid_range # <<>>

\* C31: with a valid range and an invalid range given, a value of valid quality
\* that the invalid range excludes leaves the Condition unfulfilled, also when
\* it lies inside the valid range; this for numeric and for enumerated ranges
C31_InvalidRangeOverrides ==
    Evaluated /\ ValidValue /\ BothRanges
        /\ Excluded(GatedCondition, cmd[Source].attr_result.value)
        => ~GatedCondition.fulfilled

C31_Witness ==
    /\ Evaluated /\ ValidValue /\ BothRanges
    /\ GatedCondition.range_type = "range"
    /\ Excluded(GatedCondition, cmd[Source].attr_result.value)
    /\ Included(GatedCondition, cmd[Source].attr_result.value)
    /\ ~GatedCondition.fulfilled
    /\ cmd[Gated].pending /\ hist[Gated].issues = 0

\* a numeric Condition with one range, evaluated for a value of valid quality
NumericValid ==
    /\ Evaluated /\ ValidValue
    /\ GatedCondition.range_type = "range"
    /\ GatedCondition.valid_range # <<>> /\ GatedCondition.invalid_range = <<>>

NumericInvalid ==
    /\ Evaluated /\ ValidValue
    /\ GatedCondition.range_type = "range"
    /\ GatedCondition.valid_range = <<>> /\ GatedCondition.invalid_range # <<>>

\* C32 (as stated): a numeric Condition with a valid range [low, high] is
\* fulfilled iff low <= value < high, and one with an invalid range iff the
\* value is strictly outside it (value < low or value > high), the boundary
\* values low and high included
C32_HalfOpenAndStrictlyOutside ==
    LET cd == GatedCondition
        v == cmd[Source].attr_result.value
    IN  /\ NumericValid =>
               (cd.fulfilled <=> cd.valid_range[1] <= v /\ v < cd.valid_range[2])
        /\ NumericInvalid =>
               (cd.fulfilled <=> v < cd.invalid_range[1] \/ v > cd.invalid_range[2])

\* C32 (amended): a numeric Condition with a valid range [low, high] is
\* fulfilled iff the value lies between the boundaries and is neither of them,
\* and one with an invalid range iff the value is at most low or at least high:
\* the boundary values are outside both ranges
C32_BoundariesOutside ==
    LET cd == GatedCondition
        v == cmd[Source].attr_result.value
    IN  /\ NumericValid =>
               (cd.fulfilled <=> v \in (cd.valid_range[1] + 1)..(cd.valid_range[2] - 1))
        /\ NumericInvalid =>
               (cd.fulfilled <=> v <= cd.invalid_range[1] \/ v >= cd.invalid_range[2])

\* a value on the low boundary of a valid range, and the Condition unfulfilled
C32_Witness ==
    /\ NumericValid
    /\ GatedCondition.valid_range[1] < GatedCondition.valid_range[2]
    /\ cmd[Source].attr_result.value = GatedCondition.valid_range[1]
    /\ ~GatedCondition.fulfilled

\* C33 (as stated): a Condition whose source holds no value is fulfilled once
\* the gated command has checked it, whether the source has not started, has
\* failed or has completed without a result; a Condition evaluated for a value
\* of a quality other than valid is unfulfilled
C33_NoValueIsFulfilled ==
    /\ hist[Gated].starts > 0 /\ cmd[Source].attr_result.isNone => GatedCondition.fulfilled
    /\ Evaluated /\ ~cmd[Source].attr_result.isNone /\ ~ValidValue => ~GatedCondition.fulfilled

\* C33 (amended): a Condition evaluated for a source that is done and holds no
\* value is fulfilled, and one evaluated for a value of a quality other than
\* valid is unfulfilled; a Condition whose source is not done is not evaluated:
\* it keeps its fulfilled flag, and while the source has never completed it is
\* unfulfilled and the gated command has issued nothing
C33_NoValueOfDoneSourceIsFulfilled ==
    /\ [](Evaluated /\ cmd[Source].attr_result.isNone => GatedCondition.fulfilled)
    /\ [](Evaluated /\ ~cmd[Source].attr_result.isNone /\ ~ValidValue => ~GatedCondition.fulfilled)
    /\ [](hist[Source].notes = 0 => ~GatedCondition.fulfilled /\ hist[Gated].issues = 0)
    /\ [][~cmd[Source].done' =>
              cmd[Gated].condition_dict'[1].fulfilled = GatedCondition.fulfilled]_vars

\* the source completed without a result, and the gated command issued
C33_Witness ==
    /\ Evaluated /\ cmd[Source].attr_result.isNone
    /\ GatedCondition.invalid_range # <<>>
    /\ GatedCondition.fulfilled
    /\ hist[Gated].issues = 1

-----------------------------------------------------------------------------
(* The twisted StateDispatcher (SpecTwisted, SpecTwistedLive) *)

\* C34: after state_exit() has returned None the dispatcher's state is the
\* name of the state object it left, and after state_exit() has returned a
\* name it is that name
C34_NoneStaysElseSwitches ==
    twisted.left.name # "None" =>
        twisted.current_state =
            IF twisted.left.new_state = "None" THEN twisted.left.name
            ELSE twisted.left.new_state

\* C40: once stop_run() has been called on the state object after its
\* state_enter() began, run() returns and the thread comes to state_exit()
C40_StopRequestedRunReturns ==
    twisted.requested ~> twisted.pc = "exit"

-----------------------------------------------------------------------------
(* The controller, continued *)

\* C35: a read, write or command has issued its device operation at most
\* once since its last start()
C35_AtMostOneIssuePerStart ==
    \A c \in Cmds : cmd[c].operation # "delay" => hist[c].issues <= 1

\* C36: no thread that holds the lock of the controller waits for that lock
C36_NeverBlocksOnOwnLock == ~observed.relocked

\* C37: when the handler evaluates the outcome of the command it waited for
\* (the probe read in unknown_handler, the start command in init_handler) and
\* that command has completed successfully, the command is done
C37_SuccessIsObserved ==
    thread.pc \in {"unknown_probed", "init_waited"} /\ hist[thread.cmd].ended = "success"
        => cmd[thread.cmd].done


\* the delay commands among the conditions of command c
DelayConditions(c) ==
    {d \in CondObjs(cmd[c]) : cmd[d].operation = "delay"}

\* C39: a recurring command holds at most one delay condition, however often it
\* has completed and been re-armed
C39_AtMostOneDelayCondition ==
    \A c \in Cmds : cmd[c].recurrent => Cardinality(DelayConditions(c)) <= 1


\* C38: command_list holds at most one recurring read of each attribute name
C38_OneRecurringReadPerName ==
    \A i, j \in 1..Len(command_list) :
        /\ i # j
        /\ cmd[command_list[i]].recurrent /\ cmd[command_list[i]].operation = "read"
        /\ cmd[command_list[j]].recurrent /\ cmd[command_list[j]].operation = "read"
        => cmd[command_list[i]].name # cmd[command_list[j]].name

====
